---- MODULE Spec2Model ----
(***************************************************************************)
(* Verification model of the trackers analysis pipelines.                  *)
(*                                                                         *)
(*   Spec        AnalyseTracker of trackers/analyse.py: the per-rider      *)
(*               state machine fed batch by batch (on_new_points),         *)
(*               reset by on_reset_points and asked for a predicted        *)
(*               position (get_predicted_position).                        *)
(*   SpecLegacy  the function pipeline of trackers/__init__.py             *)
(*               (start_analyse_tracker, analyse_tracker_new_points,       *)
(*               make_inactive, stop_analyse_tracker) run as tasks of an   *)
(*               asyncio event loop.                                       *)
(*                                                                         *)
(* Python values: None is the empty tuple <<>>, an optional scalar v is    *)
(* the one-element tuple <<v>>, a dict is a record whose DOMAIN is the set *)
(* of keys present.  Times are whole minutes.  Float distances are fixed   *)
(* point numbers in units of 1/Scale metre, so that round() is not the     *)
(* identity; distances the code has already rounded are whole metres.      *)
(***************************************************************************)
EXTENDS Integers, Sequences, FiniteSets, TLC

\* ---------------------------------------------------------------- bounds
Scale == 2            \* distance resolution: units per metre
MaxShort == 3         \* raw points fed in a run of short batches
MaxLong == 11         \* raw points fed in a run of long batches
MaxLongPos == 2       \* of which carry a position
MaxResets == 1        \* reset-points signals in a run
RouteLen == 11000     \* total distance of the main route of the sample route set

\* ------------------------------------------------------ program constants
track_break_time == 15        \* minutes
track_break_dist == 10000
OutOfRangeDist == 100000
FinishTolerance == 100
SnapDist == 250
OffRouteDist == 200
FlushEvery == 10
MinSpeed == 30              \* 3 km/h, in tenths of km/h
FollowDist == 500

\* ------------------------------------------------------------ Python values
None == <<>>
Some(v) == <<v>>
Abs(n) == IF n < 0 THEN 0 - n ELSE n

\* dict[k] = v
Put(d, k, v) == (k :> v) @@ d
\* dict.pop(k, None)
Pop(d, k) == [x \in DOMAIN d \ {k} |-> d[x]] @@ <<>>
\* dict.get(k, default)
Get(d, k, default) == IF k \in DOMAIN d THEN d[k] ELSE default

\* round(x) of a non-negative float x given in 1/Scale metres: nearest whole
\* metre, a tie going to the even one.
Round(x) ==
    LET q == x \div Scale
        r == x % Scale
    IN  IF 2 * r < Scale THEN q
        ELSE IF 2 * r > Scale THEN q + 1
        ELSE IF q % 2 = 0 THEN q ELSE q + 1

\* round(n / d) for n >= 0 and d > 0.
RoundDiv(n, d) ==
    LET q == n \div d
        r == n % d
    IN  IF 2 * r < d THEN q
        ELSE IF 2 * r > d THEN q + 1
        ELSE IF q % 2 = 0 THEN q ELSE q + 1

VARIABLES
    \* configuration given to AnalyseTracker.start
    routes, analyse_start_time,
    \* attributes of the AnalyseTracker set by reset()
    prev_point_with_position, prev_unit_vector, current_track_id, prev_closest,
    prev_route_dist, prev_route_dist_time, going_forward, finished, is_off_route,
    off_route_track_id, total_dist,
    \* frame of the running on_new_points call
    pc, len, i, new_new_points, new_off_route_points, did_slow_log,
    \* locals of the last loop iteration
    loc,
    \* where a running on_reset_points call stands
    reset_pc,
    \* the time given to the last call of get_predicted_position and what it
    \* returned, until the pipeline takes its next step
    predicted,
    \* the points on_new_points has handed to self.new_points and to
    \* off_route_tracker.new_points since the last reset_points
    points, off_route_points,
    \* the source: what it has fed so far
    feed,
    \* --- the function pipeline of trackers/__init__.py ---
    \* the wall clock (minutes) and the source tracker's points
    now, tracker_points,
    \* attributes of the analysed tracker set by start_analyse_tracker
    at_points, at_last_point_with_position, at_current_track_id, at_status,
    at_make_inactive_fut, at_last_closest, at_dist_ridden, at_finished,
    \* the event loop: analyse_tracker_new_points tasks, make_inactive tasks,
    \* shielded deliveries, the ready queue and the task that is running
    analyses, timers, delivers, ready, running,
    \* where the call of stop_analyse_tracker stands
    stop_pc,
    \* what the source of the function pipeline has fed so far
    lfeed,
    \* --- the functions of analyse.py called on their own ---
    \* the arguments of a call of find_closest_point_pair_routes, what the call
    \* returned, and the result after a trip through the cache encoding
    search, found, unpacked,
    \* the arguments of a call of ramer_douglas_peucker and what it returned
    rdp, simplified,
    \* --- the events of events.py ---
    \* the tree of the data repository at HEAD, app['trackers.events'], an
    \* Event object held outside the registry, and the last operation made
    repo_tree, app_events, event, last_op,
    \* --- further functions of analyse.py called on their own ---
    \* a call of route_elevation: its arguments and what it returned
    elevation_call,
    \* a call of ramer_douglas_peucker_sections: its arguments and its outcome
    sections_call,
    \* --- AnalyseTracker.start ---
    \* the source tracker's points and the call of start on it
    startup,
    \* --- the trackers of an event (events.py) ---
    \* rider_trackers, trackers_started and starting_fut of an Event, and the
    \* calls of start_trackers and stop_and_complete_trackers on it
    event_trackers

cfgVars == <<routes, analyse_start_time>>
selfVars == <<prev_point_with_position, prev_unit_vector, current_track_id,
              prev_closest, prev_route_dist, prev_route_dist_time, going_forward,
              finished, is_off_route, off_route_track_id, total_dist>>
frameVars == <<pc, len, i, new_new_points, new_off_route_points, did_slow_log>>
outVars == <<points, off_route_points>>
classVars == <<selfVars, frameVars, loc, reset_pc, predicted, outVars, feed,
               analyse_start_time>>
atVars == <<at_points, at_last_point_with_position, at_current_track_id, at_status,
            at_make_inactive_fut, at_last_closest, at_dist_ridden, at_finished>>
loopVars == <<analyses, timers, delivers, ready, running>>
legacyVars == <<now, tracker_points, atVars, loopVars, stop_pc, lfeed>>
eventVars == <<repo_tree, app_events, event, last_op>>
callVars == <<elevation_call, sections_call, startup, event_trackers>>
libVars == <<search, found, unpacked, rdp, simplified, eventVars, callVars>>
vars == <<cfgVars, selfVars, frameVars, loc, reset_pc, predicted, outVars, feed,
          legacyVars, libVars>>

\* ------------------------------------------------------------ sample world
\* A closest_point_pair_route result: route_i, dist (float, 1/Scale m),
\* route_distance(route, closest) and route_distance_no_adjust (whole metres).
Match(route_i, dist, rd, nd) ==
    [route_i |-> route_i, dist |-> dist, route_dist |-> rd, no_adjust |-> nd]

\* The sample route set: a main route and one alternate route.
SampleRoutes == <<[main |-> TRUE, distance |-> RouteLen], [main |-> FALSE, distance |-> 100]>>

Far == track_break_dist * Scale + Scale
Step == OffRouteDist * Scale + 1      \* just over 200 m, and round() gives 200

\* Sample locations on a line (x in 1/Scale metres) with the match the search
\* finds for each against SampleRoutes.
Locations ==
    { [x |-> 0,            closest |-> Match(0, 0, 100, 100)],
      [x |-> Step,         closest |-> Match(0, 0, 600, 600)],
      [x |-> 2 * Step,     closest |-> Match(1, 0, RouteLen - 50, 50)],
      [x |-> 3 * Step,     closest |-> Match(0, OffRouteDist * Scale + 1, 600, 600)],
      [x |-> 4 * Step,     closest |-> Match(0, OffRouteDist * Scale, 700, 700)],
      [x |-> 5 * Step,     closest |-> Match(0, FollowDist * Scale, 800, 800)],
      [x |-> Far,          closest |-> Match(0, OutOfRangeDist * Scale + 1, 600, 600)],
      [x |-> 3 * Far,      closest |-> Match(0, 0, RouteLen - FinishTolerance, RouteLen - FinishTolerance)],
      [x |-> 3 * Far + 1,  closest |-> Match(0, 0, RouteLen - FinishTolerance + 1, RouteLen - FinishTolerance + 1)] }

Loc(x) == CHOOSE l \in Locations : l.x = x

\* The positioned raw points a run draws from: a location and the minutes
\* since the previous raw point.
Samples ==
    { [x |-> 0, dt |-> 1],
      [x |-> Step, dt |-> 0], [x |-> Step, dt |-> 1],
      [x |-> 2 * Step, dt |-> 1],
      [x |-> 3 * Step, dt |-> 1],
      [x |-> 4 * Step, dt |-> 1],
      [x |-> 5 * Step, dt |-> 2],
      [x |-> Far, dt |-> track_break_time + 1],
      [x |-> 3 * Far, dt |-> track_break_time + 1],
      [x |-> 3 * Far + 1, dt |-> 1], [x |-> 3 * Far + 1, dt |-> track_break_time + 1] }

\* The few drawn from in long batches and in the runs without routes or
\* without analyse_start_time.
FewSamples == { [x |-> 0, dt |-> 1], [x |-> Far, dt |-> track_break_time + 1] }

\* distance(point1, point2): norm of the difference of the p-vectors, here of
\* two points of the line.
distance(x1, x2) == Abs(x1 - x2)

\* find_closest_point_pair_routes: None without routes, else the match of the
\* location.
find_closest(rts, x) ==
    IF rts = <<>> THEN None
    ELSE Loc(x).closest

\* ------------------------------------------------- AnalyseTracker.reset
\* Mutant of ResetState: the distance ridden and the off-route flag survive.
ResetState_KeepsDist ==
    /\ prev_point_with_position' = None
    /\ prev_unit_vector' = None
    /\ current_track_id' = 0
    /\ prev_closest' = None
    /\ prev_route_dist' = 0
    /\ prev_route_dist_time' = None
    /\ going_forward' = None
    /\ finished' = FALSE
    /\ off_route_track_id' = 0
    /\ UNCHANGED <<is_off_route, total_dist>>

ResetState ==
    /\ prev_point_with_position' = None
    /\ prev_unit_vector' = None
    /\ current_track_id' = 0
    /\ prev_closest' = None
    /\ prev_route_dist' = 0
    /\ prev_route_dist_time' = None
    /\ going_forward' = None
    /\ finished' = FALSE
    /\ is_off_route' = FALSE
    /\ off_route_track_id' = 0
    /\ total_dist' = 0

\* ------------------------------------ one iteration of on_new_points' loop
\* point.pop('status'), point.pop('dist_route'), point.pop('track_id')
Strip(point) == Pop(Pop(Pop(point, "status"), "dist_route"), "track_id")

\* Mutant of DoMatch: a finished rider is matched as well.
DoMatch_Finished(point) ==
    /\ analyse_start_time # None
    /\ analyse_start_time[1] <= point.time

\* Whether the point is matched against the routes.
DoMatch(point) ==
    /\ ~finished
    /\ analyse_start_time # None
    /\ analyse_start_time[1] <= point.time

\* closest after the out-of-range cutoff.
Cutoff(closest) ==
    IF closest # None /\ closest.dist > OutOfRangeDist * Scale THEN None ELSE closest

\* Mutant of IsFinish: the route index is not looked at.
IsFinish_AnyRoute(closest) ==
    Abs(closest.route_dist - routes[1].distance) < FinishTolerance

\* The finish test on a match.
IsFinish(closest) ==
    /\ closest.route_i = 0
    /\ Abs(closest.route_dist - routes[1].distance) < FinishTolerance

\* Mutant of DistFromLast: always the chord to the previous point.
DistFromLast_Chord(point, closest) ==
    IF prev_point_with_position # None
    THEN Some(distance(point.position, prev_point_with_position.position))
    ELSE IF closest # None THEN Some(closest.route_dist * Scale) ELSE None

\* dist_from_last (1/Scale metres) as an optional value.
DistFromLast(point, closest) ==
    IF prev_point_with_position # None
    THEN IF /\ closest # None
            /\ closest.dist < SnapDist * Scale
            /\ prev_closest # None
            /\ prev_closest.dist < SnapDist * Scale
            /\ closest.route_i = prev_closest.route_i
         THEN Some(Abs(closest.no_adjust - prev_closest.no_adjust) * Scale)
         ELSE Some(distance(point.position, prev_point_with_position.position))
    ELSE IF closest # None THEN Some(closest.route_dist * Scale) ELSE None

\* time = point['time'] - prev_point['time'], or from analyse_start_time.
TimeFromLast(point) ==
    IF prev_point_with_position # None
    THEN point.time - prev_point_with_position.time
    ELSE point.time - analyse_start_time[1]

\* Mutant of IsTrackBreak: one exceeded threshold is enough.
IsTrackBreak_Either(time, dist_from_last) ==
    /\ time # 0
    /\ dist_from_last # None
    /\ dist_from_last[1] # 0
    /\ (time > track_break_time \/ dist_from_last[1] > track_break_dist * Scale)

\* The track break test.
IsTrackBreak(time, dist_from_last) ==
    /\ time # 0
    /\ dist_from_last # None
    /\ dist_from_last[1] # 0
    /\ time > track_break_time
    /\ dist_from_last[1] > track_break_dist * Scale

\* Mutant of AddDist: assigned instead of accumulated.
AddDist_Assign(total, dist_from_last) == dist_from_last

\* round(dist_from_last / seconds * 3.6, 1), in tenths of km/h, of a distance
\* in 1/Scale metres and a time in minutes.
SpeedFromLast(dist_from_last, time) == RoundDiv(3 * dist_from_last, 5 * Scale * time)

\* self.total_dist += dist_from_last
AddDist(total, dist_from_last) == total + dist_from_last

\* Mutant of NextOffRouteTrackId: leaving an excursion restarts the numbering.
NextOffRouteTrackId_Restart(off_id) == 0

\* self.off_route_track_id += 1 on leaving an off-route excursion.
NextOffRouteTrackId(off_id) == off_id + 1

\* Mutant of IsOffRoute: a match at exactly the threshold counts as off-route.
IsOffRoute_AtLeast(point, closest, forward) ==
    \/ routes = <<>>
    \/ closest = None
    \/ closest.dist >= OffRouteDist * Scale
    \/ (forward # Some(TRUE) /\ Get(point, "dist_from_last", 0) > OffRouteDist)

\* The off-route test, on the point as annotated so far.
IsOffRoute(point, closest, forward) ==
    \/ routes = <<>>
    \/ closest = None
    \/ closest.dist > OffRouteDist * Scale
    \/ (forward # Some(TRUE) /\ Get(point, "dist_from_last", 0) > OffRouteDist)

\* Mutant of JoinsPrev: the previous point's track is not looked at.
JoinsPrev_AnyTrack(track_id) ==
    /\ ~is_off_route
    /\ prev_point_with_position # None

\* Whether the previous position opens the off-route segment.
JoinsPrev(track_id) ==
    /\ ~is_off_route
    /\ prev_point_with_position # None
    /\ prev_point_with_position.track_id = track_id

\* The matched branch for a point with a position: the new attribute values,
\* the annotated point, the off-route points appended and the locals.
Matched(p1) ==
    LET closest == Cutoff(find_closest(routes, p1.position))
        has == closest # None
        forward == IF has THEN Some(closest.route_dist > prev_route_dist) ELSE None
        fin == has /\ IsFinish(closest)
        p2 == IF has THEN Put(p1, "dist_route", closest.route_dist) ELSE p1
        p3 == IF fin THEN Put(Put(p2, "finished_time", p2.time), "rider_status", "Finished")
              ELSE p2
        time == TimeFromLast(p1)
        dist_from_last == DistFromLast(p1, closest)
        vec == IF prev_point_with_position # None
                  /\ p1.position # prev_point_with_position.position
               THEN Some("unit") ELSE None
        p4 == IF time # 0 THEN Put(p3, "time_from_last", time) ELSE p3
        moved == dist_from_last # None /\ dist_from_last[1] # 0
        total == IF moved THEN AddDist(total_dist, dist_from_last[1]) ELSE total_dist
        p5 == IF moved
              THEN Put(Put(p4, "dist", Round(total)), "dist_from_last", Round(dist_from_last[1]))
              ELSE p4
        p6 == IF time # 0 /\ moved
              THEN Put(p5, "speed_from_last", SpeedFromLast(dist_from_last[1], time))
              ELSE p5
        brk == IsTrackBreak(time, dist_from_last)
        track_id == IF brk THEN current_track_id + 1 ELSE current_track_id
        off_id == IF brk THEN off_route_track_id + 1 ELSE off_route_track_id
        off == IsOffRoute(p6, closest, forward)
        here == [position |-> p1.position, track_id |-> off_id]
        appended ==
            IF off
            THEN (IF JoinsPrev(track_id)
                  THEN <<[position |-> prev_point_with_position.position, track_id |-> off_id]>>
                  ELSE <<>>) \o <<here>>
            ELSE IF is_off_route THEN <<here>> ELSE <<>>
    IN  [ point |-> Put(p6, "track_id", track_id),
          prev_unit_vector |-> vec,
          current_track_id |-> track_id,
          prev_closest |-> closest,
          prev_route_dist |-> IF has THEN closest.route_dist ELSE prev_route_dist,
          prev_route_dist_time |-> IF has THEN Some(p1.time) ELSE None,
          going_forward |-> forward,
          finished |-> fin,
          is_off_route |-> off,
          off_route_track_id |-> IF ~off /\ is_off_route THEN NextOffRouteTrackId(off_id)
                                 ELSE off_id,
          total_dist |-> total,
          appended |-> appended,
          loc |-> [ matched |-> TRUE, closest |-> closest, time |-> Some(time),
                    dist_from_last |-> dist_from_last, track_break |-> brk,
                    off_route |-> off, prev_point |-> prev_point_with_position,
                    appended |-> appended ] ]

\* Mutant of Skipped: the match of the previous point is kept.
Skipped_KeepsClosest(p1) ==
    [ point |-> Put(p1, "track_id", current_track_id),
      prev_unit_vector |-> prev_unit_vector,
      current_track_id |-> current_track_id,
      prev_closest |-> prev_closest,
      prev_route_dist |-> prev_route_dist,
      prev_route_dist_time |-> prev_route_dist_time,
      going_forward |-> going_forward,
      finished |-> finished,
      is_off_route |-> is_off_route,
      off_route_track_id |-> off_route_track_id,
      total_dist |-> total_dist,
      appended |-> <<>>,
      loc |-> [ matched |-> FALSE, closest |-> None, time |-> None,
                dist_from_last |-> None, track_break |-> FALSE, off_route |-> FALSE,
                prev_point |-> prev_point_with_position, appended |-> <<>> ] ]

\* The branch of a point with a position that is not matched.
Skipped(p1) ==
    [ point |-> Put(p1, "track_id", current_track_id),
      prev_unit_vector |-> prev_unit_vector,
      current_track_id |-> current_track_id,
      prev_closest |-> None,
      prev_route_dist |-> prev_route_dist,
      prev_route_dist_time |-> prev_route_dist_time,
      going_forward |-> None,
      finished |-> finished,
      is_off_route |-> is_off_route,
      off_route_track_id |-> off_route_track_id,
      total_dist |-> total_dist,
      appended |-> <<>>,
      loc |-> [ matched |-> FALSE, closest |-> None, time |-> None,
                dist_from_last |-> None, track_break |-> FALSE, off_route |-> FALSE,
                prev_point |-> prev_point_with_position, appended |-> <<>> ] ]

\* A point without a position: only copied.
Copied(p1) ==
    [ point |-> p1,
      prev_unit_vector |-> prev_unit_vector,
      current_track_id |-> current_track_id,
      prev_closest |-> prev_closest,
      prev_route_dist |-> prev_route_dist,
      prev_route_dist_time |-> prev_route_dist_time,
      going_forward |-> going_forward,
      finished |-> finished,
      is_off_route |-> is_off_route,
      off_route_track_id |-> off_route_track_id,
      total_dist |-> total_dist,
      appended |-> <<>>,
      loc |-> [ matched |-> FALSE, closest |-> None, time |-> None,
                dist_from_last |-> None, track_break |-> FALSE, off_route |-> FALSE,
                prev_point |-> prev_point_with_position, appended |-> <<>> ] ]

\* Lines 136-235 for one raw point.
AnalysePoint(raw) ==
    LET p1 == Strip(raw)
    IN  IF "position" \notin DOMAIN p1 THEN Copied(p1)
        ELSE IF DoMatch(p1) THEN Matched(p1)
        ELSE Skipped(p1)

\* ------------------------------------------------------------ the source
\* The raw points the source may deliver next.  A run feeds short batches of
\* any sample point ("short"), short batches of few sample points ("few") or
\* long batches of few sample points ("long"); only a "few" run is reset;
\* timestamps do not go back.
RawPoints ==
    LET id == feed.seq + 1
        plain == [id |-> id, time |-> feed.clock]
        stale == [id |-> id, time |-> feed.clock, status |-> "Inactive", track_id |-> 7]
        drawn == IF feed.mode = "short" THEN Samples
                 ELSE IF feed.pos_left > 0 THEN FewSamples
                 ELSE {}
    IN  (IF feed.mode = "short" THEN {stale} ELSE {plain})
        \cup {[id |-> id, time |-> feed.clock + s.dt, position |-> s.x] : s \in drawn}

BatchLengths ==
    IF feed.mode = "long" THEN FlushEvery .. feed.left ELSE 0 .. feed.left

\* -------------------------------------------------------------- delivery
\* Tracker.new_points: the batch is appended to the tracker's points.
new_points(self_points, batch) == self_points \o batch

\* Mutant of HandedOver: the analysed points are not handed over.
HandedOver_Nothing(sofar, buf) == sofar

\* await self.new_points(new_new_points): the analysed tracker has the buffer
\* after what it had.
HandedOver(sofar, buf) == sofar \o buf

\* reset_points of the analysed tracker and of off_route_tracker: what was
\* delivered before is dropped downstream.
reset_points(self_points) == <<>>

\* ----------------------------------------------------------------- Init
\* AnalyseTracker.__init__ and reset(), before any call of on_new_points.
ClassStart ==
    /\ prev_point_with_position = None
    /\ prev_unit_vector = None
    /\ current_track_id = 0
    /\ prev_closest = None
    /\ prev_route_dist = 0
    /\ prev_route_dist_time = None
    /\ going_forward = None
    /\ finished = FALSE
    /\ is_off_route = FALSE
    /\ off_route_track_id = 0
    /\ total_dist = 0
    /\ pc = "idle"
    /\ len = 0
    /\ i = 0
    /\ new_new_points = <<>>
    /\ new_off_route_points = <<>>
    /\ did_slow_log = FALSE
    /\ loc = None
    /\ reset_pc = "idle"
    /\ predicted = None
    /\ points = <<>>
    /\ off_route_points = <<>>

\* No function of analyse.py has been called on its own.
NoSearch ==
    /\ search = None
    /\ found = None
    /\ unpacked = None

NoRdp ==
    /\ rdp = None
    /\ simplified = None

\* A data repository without a commit and an application without events.
NoEvents ==
    /\ repo_tree = None
    /\ app_events = <<>>
    /\ event = None
    /\ last_op = [op |-> "none"]

\* None of the functions below has been called.
NoCalls ==
    /\ elevation_call = None
    /\ sections_call = None
    /\ startup = None
    /\ event_trackers = None

\* start_analyse_tracker on a source tracker without points; no task exists.
FunctionStart ==
    /\ now = 0
    /\ tracker_points = <<>>
    /\ at_points = <<>>
    /\ at_last_point_with_position = None
    /\ at_current_track_id = 0
    /\ at_status = "None"      \* Python's None, among the status strings
    /\ at_make_inactive_fut = None
    /\ at_last_closest = None
    /\ at_dist_ridden = 0
    /\ at_finished = FALSE
    /\ analyses = <<>>
    /\ timers = <<>>
    /\ delivers = <<>>
    /\ ready = <<>>
    /\ running = None
    /\ stop_pc = "no"

Init ==
    /\ routes \in {<<>>, SampleRoutes}
    /\ analyse_start_time \in {None, Some(1)}
    /\ ClassStart
    /\ FunctionStart
    /\ NoSearch
    /\ NoRdp
    /\ NoEvents
    /\ NoCalls
    /\ lfeed = [left |-> 0, seq |-> 0, time |-> 0]
    /\ feed \in { [mode |-> m, left |-> IF m = "long" THEN MaxLong ELSE MaxShort,
                   pos_left |-> IF m = "short" THEN MaxShort ELSE MaxLongPos,
                   resets |-> IF m = "few" THEN MaxResets ELSE 0,
                   clock |-> 0, seq |-> 0] : m \in {"short", "few", "long"} }
    /\ (routes = <<>> \/ analyse_start_time = None) => feed.mode = "few"

\* ------------------------------------------------------------ callbacks
\* Mutant of CallbackFree: a callback is invoked while on_reset_points is
\* between its awaits.
CallbackFree_DuringReset == pc = "idle"

\* The observables of the source invoke the callbacks of the pipeline one
\* after the other: the next begins when no call is in progress.
CallbackFree == pc = "idle" /\ reset_pc = "idle"

\* ------------------------------------------------------- on_new_points
\* Lines 124-133: a call with a batch of n points begins.  The points of the
\* batch are drawn as the loop reaches them.
OnNewPoints ==
    /\ CallbackFree
    /\ \E n \in BatchLengths :
         /\ n > 0
         /\ len' = n
    /\ pc' = "loop"
    /\ i' = 0
    /\ new_new_points' = <<>>
    /\ new_off_route_points' = <<>>
    /\ did_slow_log' = FALSE
    /\ predicted' = None
    /\ UNCHANGED <<libVars, cfgVars, selfVars, loc, reset_pc, outVars, feed, legacyVars>>

\* Lines 135-259 for point i: the point is analysed and buffered; at every
\* tenth point and at the last one the buffers are flushed if a second has
\* passed since the last log (slow); the log line divides by len - 1.  After
\* the last point, or the finishing one, what is left in the buffers is
\* flushed.  A flush hands the analysed points over first (lines 248-249,
\* 258-259); the off-route points that wait are handed over by
\* DeliverOffRoute.
LoopBody ==
    /\ pc = "loop"
    /\ \E raw \in RawPoints, slow \in BOOLEAN : \E r \in {AnalysePoint(raw)} :
         LET buf == Append(new_new_points, r.point)
             off_buf == new_off_route_points \o r.appended
             is_last_point == i = len - 1
             log == /\ (i % FlushEvery = FlushEvery - 1 \/ is_last_point)
                    /\ (slow \/ (is_last_point /\ did_slow_log))
             raises == log /\ len - 1 = 0
             exits == is_last_point \/ r.finished
         IN  /\ prev_point_with_position' =
                    IF "position" \in DOMAIN r.point THEN r.point
                    ELSE prev_point_with_position
             /\ prev_unit_vector' = r.prev_unit_vector
             /\ current_track_id' = r.current_track_id
             /\ prev_closest' = r.prev_closest
             /\ prev_route_dist' = r.prev_route_dist
             /\ prev_route_dist_time' = r.prev_route_dist_time
             /\ going_forward' = r.going_forward
             /\ finished' = r.finished
             /\ is_off_route' = r.is_off_route
             /\ off_route_track_id' = r.off_route_track_id
             /\ total_dist' = r.total_dist
             /\ loc' = Put(Put(r.loc, "id", raw.id), "raised", raises)
             /\ feed' = [feed EXCEPT !.seq = raw.id, !.clock = raw.time,
                                     !.left = @ - 1,
                                     !.pos_left = IF "position" \in DOMAIN raw
                                                  THEN @ - 1 ELSE @]
             /\ IF raises
                THEN \* ZeroDivisionError leaves the call; its buffers are lost
                     /\ pc' = "idle"
                     /\ new_new_points' = <<>>
                     /\ new_off_route_points' = <<>>
                     /\ UNCHANGED <<i, did_slow_log, outVars>>
                ELSE /\ did_slow_log' = (did_slow_log \/ log)
                     /\ new_off_route_points' = off_buf
                     /\ UNCHANGED off_route_points
                     /\ IF log \/ exits
                        THEN /\ points' = HandedOver(points, buf)
                             /\ new_new_points' = <<>>
                        ELSE /\ new_new_points' = buf
                             /\ UNCHANGED points
                     /\ pc' = IF (log \/ exits) /\ off_buf # <<>>
                              THEN (IF exits THEN "off_route_end" ELSE "off_route")
                              ELSE (IF exits THEN "idle" ELSE "loop")
                     /\ i' = IF exits THEN i ELSE i + 1
    /\ predicted' = None
    /\ UNCHANGED <<libVars, cfgVars, len, reset_pc, legacyVars>>

\* Lines 250-252 and 260-261: the second await of a flush hands the buffered
\* off-route points to off_route_tracker; then the loop goes on, or the call
\* ends.
DeliverOffRoute ==
    /\ pc \in {"off_route", "off_route_end"}
    /\ off_route_points' = off_route_points \o new_off_route_points
    /\ new_off_route_points' = <<>>
    /\ pc' = IF pc = "off_route_end" THEN "idle" ELSE "loop"
    /\ predicted' = None
    /\ UNCHANGED <<libVars, cfgVars, selfVars, len, i, new_new_points, did_slow_log, loc,
                   reset_pc, points, feed, legacyVars>>

\* ------------------------------------------------------ on_reset_points
\* Line 119: the source signals a reset; reset_points() of the analysed
\* tracker empties its points.
OnResetPoints ==
    /\ CallbackFree
    /\ feed.resets > 0
    /\ points' = reset_points(points)
    /\ reset_pc' = "off_route"
    /\ feed' = [feed EXCEPT !.resets = @ - 1, !.seq = 0]
    /\ predicted' = None
    /\ UNCHANGED <<libVars, cfgVars, selfVars, frameVars, loc, off_route_points, legacyVars>>

\* Line 120: reset_points() of off_route_tracker.
ResetOffRoute ==
    /\ reset_pc = "off_route"
    /\ off_route_points' = reset_points(off_route_points)
    /\ reset_pc' = "state"
    /\ predicted' = None
    /\ UNCHANGED <<libVars, cfgVars, selfVars, frameVars, loc, points, feed, legacyVars>>

\* Line 121: reset().
ResetSelf ==
    /\ reset_pc = "state"
    /\ ResetState
    /\ loc' = None
    /\ reset_pc' = "idle"
    /\ predicted' = None
    /\ UNCHANGED <<libVars, cfgVars, frameVars, outVars, feed, legacyVars>>

\* ---------------------------------------------- get_predicted_position
\* Mutant of CanPredict: a prediction is still made at track_break_time.
CanPredict_UpToBreak(time) ==
    /\ prev_point_with_position # None
    /\ ~finished
    /\ time - prev_point_with_position.time <= track_break_time
    /\ Get(prev_point_with_position, "speed_from_last", 0) > MinSpeed

\* Line 266: there is a previous point with a position, the rider has not
\* finished, less than track_break_time has passed since that point and its
\* speed_from_last is above 3 km/h.
CanPredict(time) ==
    /\ prev_point_with_position # None
    /\ ~finished
    /\ time - prev_point_with_position.time < track_break_time
    /\ Get(prev_point_with_position, "speed_from_last", 0) > MinSpeed

\* Mutant of FollowsRoute: the direction along the route is not looked at.
FollowsRoute_Near ==
    /\ prev_closest # None
    /\ prev_closest.dist < FollowDist * Scale

\* Line 270: the previous point was matched within 500 m of the route and
\* went forward along it.
FollowsRoute ==
    /\ prev_closest # None
    /\ going_forward = Some(TRUE)
    /\ prev_closest.dist < FollowDist * Scale

\* speed_from_last / 3.6 * time_from_last: the metres moved, in 1/Scale metre
\* rounded down, of a speed in tenths of km/h and a time in minutes.
DistMoved(speed, minutes) == (5 * speed * minutes * Scale) \div 3

\* Lines 263-295.  On the line of the sample world the rider is predicted
\* ahead of the previous position, along the route (with dist_route) when the
\* previous point was matched within 500 m and went forward, else along the
\* previous direction when there is one.
get_predicted_position(time) ==
    LET pp == prev_point_with_position
    IN  IF CanPredict(time)
        THEN LET moved == DistMoved(pp.speed_from_last, time - pp.time)
             IN  IF FollowsRoute
                 THEN Some([position |-> pp.position + moved,
                            dist_route |-> pp.dist_route +
                                RoundDiv(5 * pp.speed_from_last * (time - pp.time), 3)])
                 ELSE IF prev_unit_vector # None
                 THEN Some([position |-> pp.position + moved])
                 ELSE None
        ELSE None

\* A caller asks for the predicted position at the time of the last raw
\* point, or some minutes later.
GetPredictedPosition ==
    /\ \E time \in {feed.clock, feed.clock + track_break_time - 1,
                     feed.clock + track_break_time} :
         predicted' = [time |-> time, result |-> get_predicted_position(time)]
    /\ UNCHANGED <<libVars, cfgVars, selfVars, frameVars, loc, reset_pc, outVars, feed,
                   legacyVars>>

Next ==
    \/ OnNewPoints \/ LoopBody \/ DeliverOffRoute
    \/ OnResetPoints \/ ResetOffRoute \/ ResetSelf
    \/ GetPredictedPosition

Spec == Init /\ [][Next]_vars

\* =============================================== the function pipeline
\* start_analyse_tracker / analyse_tracker_new_points / make_inactive of
\* trackers/__init__.py, run by an asyncio event loop: call_callbacks creates
\* one task per batch and does not wait for it; a task runs until it awaits
\* something that is not done; the ready queue is first in, first out.

\* Bounds of the runs of the function pipeline.
TimeUnit == 10        \* minutes between two readings of the wall clock
MaxNow == 30          \* the wall clock stops here
MaxBatches == 3       \* calls of the source tracker's new_points
MaxBatchLen == 2      \* points in one call
MaxRaw == 3           \* points in all calls of a run

\* Constants of the function pipeline.
legacy_track_break_time == 20     \* minutes
legacy_track_break_dist == 10000
LegacyOutOfRange == 5000
LegacyFinishDist == 100
YieldLen == 20
LogEvery == 10
StopWaiter == 0             \* the call of stop among the waiters of a task

\* Sample locations of the function pipeline: the match found against
\* SampleRoutes (pair_end: closest.point_pair[1].distance minus the last
\* route point's distance) and the distance to the last route point.
LegacyLocations ==
    { [x |-> 0,
       closest |-> [route_i |-> 0, dist |-> 0, dist_route |-> 100, pair_end |-> 0 - 900],
       to_end |-> 3 * Far],
      [x |-> Far,
       closest |-> [route_i |-> 0, dist |-> LegacyOutOfRange * Scale + 1,
                    dist_route |-> 600, pair_end |-> 0 - 400],
       to_end |-> 2 * Far],
      [x |-> 3 * Far,
       closest |-> [route_i |-> 0, dist |-> 0, dist_route |-> RouteLen, pair_end |-> 0],
       to_end |-> LegacyFinishDist * Scale - 1] }

LegacyLoc(x) == CHOOSE l \in LegacyLocations : l.x = x

\* Lines 139-141: the match, dropped when more than 5000 m away.
LegacyMatch(x) ==
    LET closest == IF routes = <<>> THEN None ELSE LegacyLoc(x).closest
    IN  IF closest # None /\ closest.dist > LegacyOutOfRange * Scale THEN None
        ELSE closest

\* Line 154: the finish test.
LegacyIsFinish(closest, x) ==
    /\ closest.route_i = 0
    /\ closest.pair_end < LegacyFinishDist
    /\ LegacyLoc(x).to_end < LegacyFinishDist * Scale

\* Mutant of analyse_apply_status_to_point: the status is written always.
analyse_apply_status_always(cur_status, point, status) ==
    [point |-> Put(point, "status", status), changed |-> TRUE]

\* analyse_apply_status_to_point: the point after it, and whether the status
\* changed (the point is then handed to append_to, if given).
analyse_apply_status_to_point(cur_status, point, status) ==
    [point |-> IF status # cur_status THEN Put(point, "status", status) ELSE point,
     changed |-> status # cur_status]

\* Lines 137-178 on a positioned point: the annotated point, the synthetic
\* point the track break appends before it, and the tracker's attributes.
AnalysePositioned(point) ==
    LET closest == LegacyMatch(point.position)
        p1 == IF closest # None THEN Put(point, "dist_route", closest.dist_route)
              ELSE point
        fin == /\ closest # None
               /\ ~at_finished
               /\ LegacyIsFinish(closest, point.position)
        p2 == IF fin THEN Put(p1, "finished_time", point.time) ELSE p1
        last_point == at_last_point_with_position
        has_last == last_point # None
        dist == IF has_last THEN distance(point.position, last_point.position) ELSE 0
        time == IF has_last THEN point.time - last_point.time ELSE 0
        brk == /\ has_last
               /\ time > legacy_track_break_time
               /\ dist > legacy_track_break_dist * Scale
        inactive == analyse_apply_status_to_point(
                        at_status,
                        [time |-> IF has_last THEN last_point.time + legacy_track_break_time
                                  ELSE 0],
                        "Inactive")
        status1 == IF brk THEN "Inactive" ELSE at_status
        track == at_current_track_id + (IF brk THEN 1 ELSE 0)
        ridden == at_dist_ridden + dist
        p3 == IF has_last
              THEN Put(Put(p2, "dist_from_last", Round(dist)), "dist_ridden", Round(ridden))
              ELSE p2
        p4 == analyse_apply_status_to_point(status1, p3, "Active").point
        p5 == Put(p4, "track_id", track)
    IN  [point |-> p5,
         before |-> IF brk /\ inactive.changed THEN << inactive.point >> ELSE << >>,
         closest |-> closest,
         finished |-> (at_finished \/ fin),
         track_id |-> track,
         dist_ridden |-> ridden]

\* Entries of the ready queue.
AnalyseTask(a) == [kind |-> "analyse", id |-> a]
TimerTask(t) == [kind |-> "timer", id |-> t]
DeliverTask(d) == [kind |-> "deliver", id |-> d]
StopTask == [kind |-> "stop", id |-> StopWaiter]
InReady(e) == \E k \in 1 .. Len(ready) : ready[k] = e

\* The callbacks of a finished make_inactive task: the tasks awaiting it.
Wake(t) ==
    [k \in 1 .. Len(timers[t].waiters) |->
        IF timers[t].waiters[k] = StopWaiter THEN StopTask
        ELSE AnalyseTask(timers[t].waiters[k])]

\* ---------------------------------------------------------- its source
\* The batches the source may deliver next: points with ids in order,
\* timestamps that do not go back and are not in the future, with or
\* without a position.
RawShapes ==
    [time : {lfeed.time, now}, position : {None} \cup {Some(l.x) : l \in LegacyLocations}]

RawBatches ==
    LET mk(sh, k) == IF sh.position = None
                     THEN [id |-> lfeed.seq + k, time |-> sh.time]
                     ELSE [id |-> lfeed.seq + k, time |-> sh.time, position |-> sh.position[1]]
    IN  { [k \in DOMAIN g |-> mk(g[k], k)] :
            g \in { h \in UNION { [1 .. m -> RawShapes] : m \in 1 .. MaxBatchLen } :
                      /\ lfeed.seq + Len(h) <= MaxRaw
                      /\ \A j \in DOMAIN h : \A k \in DOMAIN h :
                          j < k => h[j].time <= h[k].time } }

InitLegacy ==
    /\ routes = SampleRoutes
    /\ analyse_start_time = None
    /\ ClassStart
    /\ feed = [mode |-> "few", left |-> 0, pos_left |-> 0, resets |-> 0,
               clock |-> 0, seq |-> 0]
    /\ FunctionStart
    /\ NoSearch
    /\ NoRdp
    /\ NoEvents
    /\ NoCalls
    /\ lfeed = [left |-> MaxBatches, seq |-> 0, time |-> 0]

\* Tracker.new_points of the source tracker (lines 37-39) and call_callbacks
\* (lines 49-54): the points are appended and a task is created for the
\* callback analyse_tracker_new_points; nothing waits for the task.
TrackerNewPoints ==
    /\ running = None
    /\ lfeed.left > 0
    /\ \E batch \in RawBatches :
         /\ tracker_points' = tracker_points \o batch
         /\ analyses' = Append(analyses,
                [pc |-> "start", batch |-> batch, i |-> 0, new_new_points |-> <<>>,
                 last_point_with_position |-> None])
         /\ ready' = Append(ready, AnalyseTask(Len(analyses) + 1))
         /\ lfeed' = [left |-> lfeed.left - 1, seq |-> lfeed.seq + Len(batch),
                      time |-> batch[Len(batch)].time]
    /\ UNCHANGED <<libVars, cfgVars, classVars, now, atVars, timers, delivers, running, stop_pc>>

\* The wall clock advances; the sleeps of make_inactive that are over put
\* their tasks on the ready queue.
Tick ==
    /\ running = None
    /\ now + TimeUnit <= MaxNow
    /\ now' = now + TimeUnit
    /\ LET ids == [t \in 1 .. Len(timers) |-> t]
           due(t) == /\ timers[t].pc = "sleep"
                     /\ timers[t].wake <= now'
                     /\ ~InReady(TimerTask(t))
           woken == SelectSeq(ids, due)
       IN  ready' = ready \o [k \in 1 .. Len(woken) |-> TimerTask(woken[k])]
    /\ UNCHANGED <<libVars, cfgVars, classVars, tracker_points, atVars, analyses, timers,
                   delivers, running, lfeed, stop_pc>>

\* ------------------------------------------- analyse_tracker_new_points
\* Lines 116-125: the task of a batch starts; a batch of more than 20 points
\* yields to the loop first.
AnalyseStart ==
    /\ running = None
    /\ ready # <<>>
    /\ Head(ready).kind = "analyse"
    /\ LET a == Head(ready).id
       IN  /\ analyses[a].pc = "start"
           /\ analyses' = [analyses EXCEPT ![a].pc = "loop"]
           /\ IF Len(analyses[a].batch) > YieldLen
              THEN /\ ready' = Append(Tail(ready), AnalyseTask(a))
                   /\ running' = None
              ELSE /\ ready' = Tail(ready)
                   /\ running' = Some(a)
    /\ UNCHANGED <<libVars, cfgVars, classVars, now, tracker_points, atVars, timers,
                   delivers, lfeed, stop_pc>>

\* The task goes on after a yield (lines 125, 188) or after the cancelled
\* make_inactive task it awaited is over (lines 133-136).
AnalyseResume ==
    /\ running = None
    /\ ready # <<>>
    /\ Head(ready).kind = "analyse"
    /\ LET a == Head(ready).id
           t == analyses[a]
       IN  /\ t.pc \in {"loop", "await", "logged"}
           /\ analyses' = [analyses EXCEPT ![a].pc =
                              IF t.pc = "await" THEN "point"
                              ELSE IF t.pc = "logged" /\ at_finished THEN "end"
                              ELSE "loop"]
           /\ at_make_inactive_fut' =
                  IF t.pc = "await" THEN None ELSE at_make_inactive_fut
           /\ ready' = Tail(ready)
           /\ running' = Some(a)
    /\ UNCHANGED <<libVars, cfgVars, classVars, now, tracker_points, at_points,
                   at_last_point_with_position, at_current_track_id, at_status,
                   at_last_closest, at_dist_ridden, at_finished, timers,
                   delivers, lfeed, stop_pc>>

\* Lines 129-133: a positioned point finds a make_inactive task; the task is
\* cancelled and awaited.  If it is over the loop goes on at once; else the
\* cancellation is delivered by the event loop and this task waits for it.
AnalyseCancel ==
    /\ running # None
    /\ LET a == running[1]
           t == analyses[a]
       IN  /\ t.pc = "loop"
           /\ t.i < Len(t.batch)
           /\ "position" \in DOMAIN t.batch[t.i + 1]
           /\ at_make_inactive_fut # None
           /\ LET f == at_make_inactive_fut[1]
              IN  IF timers[f].pc \in {"done", "cancelled"}
                  THEN /\ at_make_inactive_fut' = None
                       /\ analyses' = [analyses EXCEPT ![a].pc = "point"]
                       /\ UNCHANGED <<timers, ready, running>>
                  ELSE /\ timers' = [timers EXCEPT ![f].must_cancel = TRUE,
                                                   ![f].waiters = Append(@, a)]
                       /\ ready' = IF InReady(TimerTask(f)) THEN ready
                                   ELSE Append(ready, TimerTask(f))
                       /\ analyses' = [analyses EXCEPT ![a].pc = "await"]
                       /\ running' = None
                       /\ UNCHANGED at_make_inactive_fut
    /\ UNCHANGED <<libVars, cfgVars, classVars, now, tracker_points, at_points,
                   at_last_point_with_position, at_current_track_id, at_status,
                   at_last_closest, at_dist_ridden, at_finished, delivers, lfeed, stop_pc>>

\* Lines 127-191 for point i (past the await of line 133, if any): the
\* point is annotated and buffered; every tenth point yields to the loop if
\* ten seconds have passed since the last log (slow).
AnalyseLoopBody ==
    /\ running # None
    /\ LET a == running[1]
           t == analyses[a]
       IN  /\ \/ t.pc = "point"
              \/ /\ t.pc = "loop"
                 /\ t.i < Len(t.batch)
                 /\ ("position" \in DOMAIN t.batch[t.i + 1]) => at_make_inactive_fut = None
           /\ \E slow \in BOOLEAN, point \in {t.batch[t.i + 1]} :
              \E r \in {IF "position" \in DOMAIN point THEN AnalysePositioned(point)
                         ELSE [point |-> point]} :
                LET positioned == "position" \in DOMAIN point
                    buf == IF positioned
                           THEN Append(t.new_new_points \o r.before, r.point)
                           ELSE Append(t.new_new_points, point)
                    fin == IF positioned THEN r.finished ELSE at_finished
                    yields == t.i % LogEvery = LogEvery - 1 /\ slow
                IN  /\ IF positioned
                       THEN /\ at_last_closest' = r.closest
                            /\ at_finished' = r.finished
                            /\ at_current_track_id' = r.track_id
                            /\ at_dist_ridden' = r.dist_ridden
                            /\ at_status' = "Active"
                            /\ at_last_point_with_position' = r.point
                       ELSE UNCHANGED <<at_last_closest, at_finished, at_current_track_id,
                                        at_dist_ridden, at_status,
                                        at_last_point_with_position>>
                    /\ analyses' = [analyses EXCEPT
                          ![a].new_new_points = buf,
                          ![a].last_point_with_position =
                              IF positioned THEN r.point ELSE @,
                          ![a].i = @ + 1,
                          ![a].pc = IF yields THEN "logged"
                                    ELSE IF fin THEN "end" ELSE "loop"]
                    /\ IF yields
                       THEN /\ ready' = Append(ready, AnalyseTask(a))
                            /\ running' = None
                       ELSE UNCHANGED <<ready, running>>
    /\ UNCHANGED <<libVars, cfgVars, classVars, now, tracker_points, at_points,
                   at_make_inactive_fut, timers, delivers, lfeed, stop_pc>>

\* Lines 194-199: after the last point, or the finishing one, the buffer is
\* delivered to the analysed tracker (Tracker.new_points, lines 37-39) and,
\* if the batch had a positioned point, a make_inactive task is created.
AnalyseDeliver ==
    /\ running # None
    /\ LET a == running[1]
           t == analyses[a]
       IN  /\ (t.pc = "loop" /\ t.i = Len(t.batch)) \/ t.pc = "end"
           /\ at_points' = new_points(at_points, t.new_new_points)
           /\ IF t.last_point_with_position # None
              THEN /\ timers' = Append(timers,
                          [last |-> t.last_point_with_position, pc |-> "new",
                           wake |-> 0, must_cancel |-> FALSE, waiters |-> <<>>])
                   /\ at_make_inactive_fut' = Some(Len(timers) + 1)
                   /\ ready' = Append(ready, TimerTask(Len(timers) + 1))
              ELSE UNCHANGED <<timers, at_make_inactive_fut, ready>>
           /\ analyses' = [analyses EXCEPT ![a].pc = "done"]
           /\ running' = None
    /\ UNCHANGED <<libVars, cfgVars, classVars, now, tracker_points,
                   at_last_point_with_position, at_current_track_id, at_status,
                   at_last_closest, at_dist_ridden, at_finished, delivers, lfeed, stop_pc>>

\* ------------------------------------------------------- make_inactive
\* Mutant of StillLast: the task does not look at the last point.
StillLast_Always(last) == TRUE

\* Line 206: no other point with a position was analysed since.
StillLast(last) == last = at_last_point_with_position

\* Lines 202-210 up to the shielded delivery.  A task cancelled before it
\* runs, or in its sleep, ends cancelled.  Else it sleeps until
\* last.time + track_break_time if that is in the future; then, if no later
\* positioned point was analysed, it applies the status 'Inactive' and
\* starts the delivery of the synthetic point as a task of its own
\* (asyncio.shield), which it awaits.
MakeInactive ==
    /\ running = None
    /\ ready # <<>>
    /\ Head(ready).kind = "timer"
    /\ LET f == Head(ready).id
           t == timers[f]
           delay == t.last.time - now + legacy_track_break_time
           inactive == analyse_apply_status_to_point(
                           at_status,
                           [time |-> t.last.time + legacy_track_break_time],
                           "Inactive")
       IN  /\ t.pc \in {"new", "sleep"}
           /\ IF t.must_cancel
              THEN /\ timers' = [timers EXCEPT ![f].pc = "cancelled", ![f].waiters = <<>>]
                   /\ ready' = Tail(ready) \o Wake(f)
                   /\ UNCHANGED <<at_status, delivers>>
              ELSE IF t.pc = "new" /\ delay > 0
              THEN /\ timers' = [timers EXCEPT ![f].pc = "sleep",
                                               ![f].wake = now + delay]
                   /\ ready' = Tail(ready)
                   /\ UNCHANGED <<at_status, delivers>>
              ELSE IF StillLast(t.last)
              THEN /\ at_status' = "Inactive"
                   /\ delivers' = Append(delivers,
                          [new_new_points |-> IF inactive.changed
                                              THEN << inactive.point >> ELSE << >>,
                           outer |-> f, done |-> FALSE])
                   /\ ready' = Append(Tail(ready), DeliverTask(Len(delivers) + 1))
                   /\ timers' = [timers EXCEPT ![f].pc = "shield"]
              ELSE /\ timers' = [timers EXCEPT ![f].pc = "done", ![f].waiters = <<>>]
                   /\ ready' = Tail(ready) \o Wake(f)
                   /\ UNCHANGED <<at_status, delivers>>
    /\ UNCHANGED <<libVars, cfgVars, classVars, now, tracker_points, at_points,
                   at_last_point_with_position, at_current_track_id,
                   at_make_inactive_fut, at_last_closest, at_dist_ridden,
                   at_finished, analyses, running, lfeed, stop_pc>>

\* The shielded analysed tracker's new_points (lines 37-39) runs: the points
\* are appended; the make_inactive task is woken unless it was cancelled.
Deliver ==
    /\ running = None
    /\ ready # <<>>
    /\ Head(ready).kind = "deliver"
    /\ LET d == Head(ready).id
           f == delivers[d].outer
       IN  /\ at_points' = new_points(at_points, delivers[d].new_new_points)
           /\ delivers' = [delivers EXCEPT ![d].done = TRUE]
           /\ ready' = IF timers[f].pc = "shield" /\ ~timers[f].must_cancel
                       THEN Append(Tail(ready), TimerTask(f))
                       ELSE Tail(ready)
    /\ UNCHANGED <<libVars, cfgVars, classVars, now, tracker_points,
                   at_last_point_with_position, at_current_track_id, at_status,
                   at_make_inactive_fut, at_last_closest, at_dist_ridden,
                   at_finished, analyses, timers, running, lfeed, stop_pc>>

\* Line 210 after the await: make_inactive is over, or cancelled if it was
\* cancelled while it awaited the shielded delivery.
MakeInactiveEnd ==
    /\ running = None
    /\ ready # <<>>
    /\ Head(ready).kind = "timer"
    /\ LET f == Head(ready).id
       IN  /\ timers[f].pc = "shield"
           /\ timers' = [timers EXCEPT
                  ![f].pc = IF timers[f].must_cancel THEN "cancelled" ELSE "done",
                  ![f].waiters = <<>>]
           /\ ready' = Tail(ready) \o Wake(f)
    /\ UNCHANGED <<libVars, cfgVars, classVars, now, tracker_points, atVars, analyses,
                   delivers, running, lfeed, stop_pc>>

\* ------------------------------------------------ stop_analyse_tracker
\* Lines 105-110: the source tracker is stopped and delivers no further
\* batch; a make_inactive task that make_inactive_fut names is cancelled and
\* awaited.  If it is over the call ends at once (line 113); else the
\* cancellation is delivered by the event loop and the call waits for it.
StopAnalyseTracker ==
    /\ running = None
    /\ stop_pc = "no"
    /\ lfeed' = [lfeed EXCEPT !.left = 0]
    /\ IF at_make_inactive_fut = None
       THEN /\ stop_pc' = "done"
            /\ UNCHANGED <<at_make_inactive_fut, timers, ready>>
       ELSE LET f == at_make_inactive_fut[1]
            IN  IF timers[f].pc \in {"done", "cancelled"}
                THEN /\ at_make_inactive_fut' = None
                     /\ stop_pc' = "done"
                     /\ UNCHANGED <<timers, ready>>
                ELSE /\ timers' = [timers EXCEPT ![f].must_cancel = TRUE,
                                                 ![f].waiters = Append(@, StopWaiter)]
                     /\ ready' = IF InReady(TimerTask(f)) THEN ready
                                 ELSE Append(ready, TimerTask(f))
                     /\ stop_pc' = "await"
                     /\ UNCHANGED at_make_inactive_fut
    /\ UNCHANGED <<libVars, cfgVars, classVars, now, tracker_points, at_points,
                   at_last_point_with_position, at_current_track_id, at_status,
                   at_last_closest, at_dist_ridden, at_finished, analyses,
                   delivers, running>>

\* Lines 111-113: the awaited make_inactive task is over; make_inactive_fut
\* is set to None and stop has completed.
StopEnd ==
    /\ running = None
    /\ ready # <<>>
    /\ Head(ready) = StopTask
    /\ stop_pc = "await"
    /\ at_make_inactive_fut' = None
    /\ stop_pc' = "done"
    /\ ready' = Tail(ready)
    /\ UNCHANGED <<libVars, cfgVars, classVars, now, tracker_points, at_points,
                   at_last_point_with_position, at_current_track_id, at_status,
                   at_last_closest, at_dist_ridden, at_finished, analyses,
                   timers, delivers, running, lfeed>>

NextLegacy ==
    \/ TrackerNewPoints
    \/ Tick
    \/ AnalyseStart
    \/ AnalyseResume
    \/ AnalyseCancel
    \/ AnalyseLoopBody
    \/ AnalyseDeliver
    \/ MakeInactive
    \/ Deliver
    \/ MakeInactiveEnd
    \/ StopAnalyseTracker
    \/ StopEnd

SpecLegacy == InitLegacy /\ [][NextLegacy]_vars

\* ================================= the functions of analyse.py on their own
\* The geometry is that of a plane with whole coordinates, one step of the
\* grid being Grid metres: lat and lng are the two coordinates of a point. A
\* distance is kept as its square, the fraction n / d with d > 0; the
\* coordinates of a projection are fractions too.
Grid == 250
MaxCoord == 2
MaxPolyline == 4

\* a < b, a > m and a < m for two distances a, b and a whole number m >= 0
Less(a, b) == a.n * b.d < b.n * a.d
Over(a, m) == a.n > m * m * a.d
Under(a, m) == a.n < m * m * a.d

Point(lat, lng) == [lat |-> lat, lng |-> lng]

\* route_with_distance_and_index: the points of a route as IndexedPoint, with
\* their indexes.
route_with_distance_and_index(route_points) ==
    [k \in DOMAIN route_points |->
        [lat |-> route_points[k][1], lng |-> route_points[k][2], index |-> k - 1]]

\* pairs(items): the consecutive pairs.
pairs(items) == [k \in 1 .. Len(items) - 1 |-> <<items[k], items[k + 1]>>]

\* get_point_pair_precalc: the two points and what is computed once for the
\* segment between them, here its direction and the square of its length.
get_point_pair_precalc(point1, point2) ==
    LET dx == point2.lat - point1.lat
        dy == point2.lng - point1.lng
    IN  <<point1, point2, [dx |-> dx, dy |-> dy, l2 |-> dx * dx + dy * dy]>>

\* find_c_point_from_precalc: the point of the segment closest to to_point and
\* its distance. The projection on the line is taken when it lies between the
\* two ends (line 558); otherwise, and for a segment of length zero, where no
\* point other than the end itself passes that test, the nearer end is taken
\* (line 565), the first of the two on a tie.
find_c_point_from_precalc(to_point, point_pair) ==
    LET point1 == point_pair[1]
        point2 == point_pair[2]
        pre == point_pair[3]
        ex == to_point.lat - point1.lat
        ey == to_point.lng - point1.lng
        fx == to_point.lat - point2.lat
        fy == to_point.lng - point2.lng
        t == ex * pre.dx + ey * pre.dy
        cr == ex * pre.dy - ey * pre.dx
    IN  IF pre.l2 > 0 /\ 0 <= t /\ t <= pre.l2
        THEN [dist |-> [n |-> cr * cr, d |-> pre.l2],
              point |-> Point([n |-> point1.lat * pre.l2 + t * pre.dx, d |-> pre.l2],
                              [n |-> point1.lng * pre.l2 + t * pre.dy, d |-> pre.l2])]
        ELSE IF pre.l2 = 0 \/ t < 0
        THEN [dist |-> [n |-> ex * ex + ey * ey, d |-> 1], point |-> point1]
        ELSE [dist |-> [n |-> fx * fx + fy * fy, d |-> 1], point |-> point2]

find_c_point(to_point, point1, point2) ==
    find_c_point_from_precalc(to_point, get_point_pair_precalc(point1, point2))

\* max(enumerate(c_points), key=dist)[0]: the index, counted from 0, of the
\* first of the greatest distances.
FirstMax(c_points) ==
    (CHOOSE k \in DOMAIN c_points :
        /\ \A j \in DOMAIN c_points : j < k => Less(c_points[j].dist, c_points[k].dist)
        /\ \A j \in DOMAIN c_points : j > k => ~Less(c_points[k].dist, c_points[j].dist))
    - 1

\* s[lo:hi] of Python for 0 <= lo.
Slice(s, lo, hi) == SubSeq(s, lo + 1, IF hi < Len(s) THEN hi ELSE Len(s))

\* Mutant of Split: the second half begins one point late, as if the split
\* point belonged to the first half only.
Split_Late(pts, imax) ==
    <<Slice(pts, 0, imax + 2), Slice(pts, imax + 2, Len(pts))>>

\* The two halves ramer_douglas_peucker recurses on (lines 400-401): both
\* hold the point farthest from the chord.
Split(pts, imax) ==
    <<Slice(pts, 0, imax + 2), Slice(pts, imax + 1, Len(pts))>>

\* ramer_douglas_peucker(points, epsilon), for epsilon >= 0.
RECURSIVE ramer_douglas_peucker(_, _)
ramer_douglas_peucker(pts, epsilon) ==
    LET n == Len(pts)
        c_points == [k \in 1 .. n - 2 |-> find_c_point(pts[k + 1], pts[1], pts[n])]
        imax == FirstMax(c_points)
    IN  IF n > 2 /\ Over(c_points[imax + 1].dist, epsilon)
        THEN LET halves == Split(pts, imax)
                 r1 == ramer_douglas_peucker(halves[1], epsilon)
                 r2 == ramer_douglas_peucker(halves[2], epsilon)
             IN  SubSeq(r1, 1, Len(r1) - 1) \o r2
        ELSE <<pts[1], pts[n]>>

\* ------------------------------------------- calls of ramer_douglas_peucker
\* The polylines of two to MaxPolyline points on the grid 0 .. MaxCoord, with
\* their indexes, and the tolerances, in steps of the grid.
Polylines ==
    { route_with_distance_and_index(l) :
        l \in UNION { [1 .. m -> (0 .. MaxCoord) \X (0 .. MaxCoord)] :
                        m \in 2 .. MaxPolyline } }

InitRdp ==
    /\ routes = <<>>
    /\ analyse_start_time = None
    /\ ClassStart
    /\ feed = [mode |-> "few", left |-> 0, pos_left |-> 0, resets |-> 0,
               clock |-> 0, seq |-> 0]
    /\ FunctionStart
    /\ lfeed = [left |-> 0, seq |-> 0, time |-> 0]
    /\ NoSearch
    /\ NoEvents
    /\ NoCalls
    /\ rdp \in { Some([points |-> l, epsilon |-> e]) : l \in Polylines, e \in 0 .. MaxCoord }
    /\ simplified = None

\* simplified_points = ramer_douglas_peucker(points, epsilon)
Simplify ==
    /\ rdp # None
    /\ simplified = None
    /\ \E r \in {ramer_douglas_peucker(rdp[1].points, rdp[1].epsilon)} :
         simplified' = Some(r)
    /\ UNCHANGED <<cfgVars, classVars, legacyVars, callVars, search, found, unpacked, rdp, eventVars>>

SpecRdp == InitRdp /\ [][Simplify]_vars

\* ------------------------------------------------- the search of the routes
\* The thresholds AnalyseTracker passes to the search (lines 145-147) and the
\* tolerance get_analyse_route simplifies with (line 352), in metres.
MinSearchComplexDist == 5000
BreakOutDist == 250
RdpEpsilon == 500

\* get_analyse_route: the indexed points, the segments between consecutive
\* points and the segments between consecutive simplified points, which are
\* those of simplified_points_indexes when the route brings them and those
\* ramer_douglas_peucker keeps otherwise.
get_analyse_route(org_route) ==
    LET route_points == route_with_distance_and_index(org_route.points)
        simplified_points ==
            IF "simplified_points_indexes" \in DOMAIN org_route
                   /\ org_route.simplified_points_indexes # <<>>
            THEN [k \in DOMAIN org_route.simplified_points_indexes |->
                     route_points[org_route.simplified_points_indexes[k] + 1]]
            ELSE ramer_douglas_peucker(route_points, RdpEpsilon \div Grid)
        precalc(pp) == [k \in DOMAIN pp |-> get_point_pair_precalc(pp[k][1], pp[k][2])]
    IN  [points |-> route_points,
         point_pairs |-> precalc(pairs(route_points)),
         simplfied_point_pairs |-> precalc(pairs(simplified_points))] @@ org_route

\* Three routes, in steps of the grid: a main route whose simplified segments
\* span two full segments each, an alternate route without
\* simplified_points_indexes, and an alternate route of one segment.
SearchRoutes ==
    [k \in 1 .. 3 |-> get_analyse_route(<<
        [main |-> TRUE,
         points |-> << <<0, 0>>, <<2, 2>>, <<4, 0>>, <<3, 3>>, <<8, 0>> >>,
         simplified_points_indexes |-> <<0, 2, 4>>],
        [main |-> FALSE,
         points |-> << <<0, 2>>, <<4, 2>>, <<8, 2>> >>],
        [main |-> FALSE,
         points |-> << <<4, 1>>, <<6, 3>> >>,
         simplified_points_indexes |-> <<0, 1>>] >>[k])]

\* The points searched for: a grid around the routes, and points about
\* min_search_complex_dist away from them.
MaxLat == 8
MaxLng == 4
ToPoints ==
    { Point(x, y) : x \in 0 .. MaxLat, y \in 0 .. MaxLng }
        \cup { Point(2, y) : y \in {22, 24} }

\* min(results, key=dist): the first of the results at the least distance.
MinDist(results) ==
    results[CHOOSE k \in DOMAIN results :
        /\ \A j \in DOMAIN results : j < k => Less(results[k].dist, results[j].dist)
        /\ \A j \in DOMAIN results : j > k => ~Less(results[j].dist, results[k].dist)]

\* find_closest_point_pair for a route without circular_range, where the key
\* of the minimum is the distance (line 491): the segment as point_pair[:2],
\* with the closest point on it and its distance.
find_closest_point_pair(point_pairs, to_point) ==
    MinDist([k \in DOMAIN point_pairs |->
                [point_pair |-> SubSeq(point_pairs[k], 1, 2)]
                    @@ find_c_point_from_precalc(to_point, point_pairs[k])])

\* Mutant of RefineRange: the refinement stops before the full segment that
\* begins at the far end of the simplified winner.
RefineRange_Inside(a, b) == <<a, b>>

\* The bounds of the slice of route['point_pairs'] the refinement searches
\* (line 475): from the index of the winner's first point up to and
\* including the index of its second point.
RefineRange(a, b) == <<a, b + 1>>

\* find_closest_point_pair_route
find_closest_point_pair_route(route, to_point, min_search_complex_dist) ==
    LET simplified_closest == find_closest_point_pair(route.simplfied_point_pairs, to_point)
        a == simplified_closest.point_pair[1].index
        b == simplified_closest.point_pair[2].index
        range == RefineRange(a, b)
    IN  IF Over(simplified_closest.dist, min_search_complex_dist) \/ a = b - 1
        THEN simplified_closest
        ELSE find_closest_point_pair(Slice(route.point_pairs, range[1], range[2]), to_point)

\* Mutant of Reversed: the order is kept.
Reversed_Not(s) == s

\* reversed(special_routes)
Reversed(s) == [k \in DOMAIN s |-> s[Len(s) + 1 - k]]

\* special_routes (lines 447-449): `if prev_closest_route_i:` is false for
\* None and for 0.
special_routes(prev_closest_route_i) ==
    IF prev_closest_route_i # None /\ prev_closest_route_i[1] # 0
    THEN <<0, prev_closest_route_i[1]>>
    ELSE <<0>>

\* find_closest_point_pair_routes_result(route_i, route,
\*     *find_closest_point_pair_route(route, to_point, ...))
RouteResult(rts, route_i, to_point, min_search_complex_dist) ==
    [route_i |-> route_i, route |-> rts[route_i + 1]]
        @@ find_closest_point_pair_route(rts[route_i + 1], to_point, min_search_complex_dist)

\* find_closest_point_pair_routes: what it returns (ret) and the results of
\* the calls of find_closest_point_pair_route it made, in order (searched).
find_closest_point_pair_routes(rts, to_point, min_search_complex_dist, prev_closest_route_i, break_out_dist) ==
    LET special == Reversed(special_routes(prev_closest_route_i))
        tried == [k \in DOMAIN special |->
                     RouteResult(rts, special[k], to_point, min_search_complex_dist)]
        broke == { k \in DOMAIN tried : Under(tried[k].dist, break_out_dist) }
        first == CHOOSE k \in broke : \A j \in broke : k <= j
        others == SelectSeq([k \in DOMAIN rts |-> k - 1],
                            LAMBDA r : \A k \in DOMAIN special : special[k] # r)
        rest == [k \in DOMAIN others |->
                    RouteResult(rts, others[k], to_point, min_search_complex_dist)]
    IN  IF rts = <<>> THEN [ret |-> None, searched |-> <<>>]
        ELSE IF broke # {}
        THEN [ret |-> Some(tried[first]), searched |-> SubSeq(tried, 1, first)]
        ELSE [ret |-> Some(MinDist(tried \o rest)), searched |-> tried \o rest]

find_closest_point_pair_routes_pack(result) ==
    <<result.route_i, result.point_pair[1].index, result.dist, result.point.lat,
      result.point.lng>>

find_closest_point_pair_routes_unpack(rts, packed) ==
    LET route == rts[packed[1] + 1]
    IN  [route_i |-> packed[1], route |-> route,
         point_pair |-> route.point_pairs[packed[2] + 1],
         dist |-> packed[3], point |-> Point(packed[4], packed[5])]

\* The calls: a route set that is empty or begins with the main route, a
\* point, the thresholds of AnalyseTracker, and as previous route none or one
\* of the set.
SearchCalls ==
    { [routes |-> SubSeq(SearchRoutes, 1, n), to_point |-> tp,
       min_search_complex_dist |-> MinSearchComplexDist \div Grid,
       prev_closest_route_i |-> prev,
       break_out_dist |-> BreakOutDist \div Grid] :
        n \in 0 .. Len(SearchRoutes), tp \in ToPoints,
        prev \in {None} \cup { Some(r) : r \in 0 .. Len(SearchRoutes) - 1 } }

InitSearch ==
    /\ routes = <<>>
    /\ analyse_start_time = None
    /\ ClassStart
    /\ feed = [mode |-> "few", left |-> 0, pos_left |-> 0, resets |-> 0,
               clock |-> 0, seq |-> 0]
    /\ FunctionStart
    /\ lfeed = [left |-> 0, seq |-> 0, time |-> 0]
    /\ search \in { Some(c) : c \in { d \in SearchCalls :
                      d.prev_closest_route_i = None
                          \/ d.prev_closest_route_i[1] < Len(d.routes) } }
    /\ found = None
    /\ unpacked = None
    /\ NoRdp
    /\ NoEvents
    /\ NoCalls

\* closest = find_closest_point_pair_routes(routes, to_point, ...)
FindClosest ==
    /\ search # None
    /\ found = None
    /\ \E r \in {find_closest_point_pair_routes(
                      search[1].routes, search[1].to_point,
                      search[1].min_search_complex_dist,
                      search[1].prev_closest_route_i, search[1].break_out_dist)} :
         found' = Some(r)
    /\ UNCHANGED <<cfgVars, classVars, legacyVars, callVars, search, unpacked, rdp, simplified,
                   eventVars>>

\* The result is stored in the cache as pack(result) and read from it as
\* unpack(routes, packed).
PackUnpack ==
    /\ found # None
    /\ found[1].ret # None
    /\ unpacked = None
    /\ \E r \in {find_closest_point_pair_routes_unpack(search[1].routes,
                    find_closest_point_pair_routes_pack(found[1].ret[1]))} :
         unpacked' = Some(r)
    /\ UNCHANGED <<cfgVars, classVars, legacyVars, callVars, search, found, rdp, simplified,
                   eventVars>>

NextSearch == FindClosest \/ PackUnpack

SpecSearch == InitSearch /\ [][NextSearch]_vars

\* ===================================================== the events of events.py
\* The tree of the data repository is a function from paths to blobs; a path
\* is the tuple of its parts.
EventNames == {"test_event", "other_event"}

\* os.path.join('events', name, 'data.yaml') and (.., 'routes'), lines 94-102
ConfigPath(name) == <<"events", name, "data.yaml">>
RoutesPath(name) == <<"events", name, "routes">>

\* yaml.dump(config, default_flow_style=False) and yaml.load(text) on the
\* configurations of the model: the empty one and one with a title.
EmptyConfig == [k \in {} |-> ""]
yaml_dump(config) ==
    IF config = EmptyConfig THEN "{}\n" ELSE "title: Test event\n"
yaml_load(text) ==
    IF text \in {"{}", "{}\n"} THEN EmptyConfig ELSE [title |-> "Test event"]

\* msgpack.dumps(routes) and msgpack.loads(routes_bytes, encoding='utf8') on
\* the route lists of the model: [] and [{'points': []}].
NoRoutes == <<>>
msgpack_dumps(rts) ==
    IF rts = NoRoutes THEN "90" ELSE "91 81 a6 points 90"
msgpack_loads(routes_bytes) ==
    IF routes_bytes = "90" THEN NoRoutes ELSE <<[points |-> <<>>]>>

\* TreeReader and TreeWriter of trackers.dulwich_helpers: tree_items of
\* 'events' and lookup of an event's directory. A path exists when it is in
\* the DOMAIN of the tree; set_data is Put and remove is Pop.
tree_items(tree) == { path[2] : path \in DOMAIN tree }
lookup(tree, name) == [path \in { q \in DOMAIN tree : q[2] = name } |-> tree[path]]

\* Event.__init__
Event(name, config, rts) ==
    [name |-> name, config |-> config, routes |-> rts, git_hash |-> None,
     trackers_started |-> FALSE]

\* Event._load
Event_load(self, tree) ==
    [self EXCEPT
        !.git_hash = Some(lookup(tree, self.name)),
        !.config = yaml_load(tree[ConfigPath(self.name)]),
        !.routes = IF RoutesPath(self.name) \in DOMAIN tree
                   THEN msgpack_loads(tree[RoutesPath(self.name)])
                   ELSE NoRoutes]

\* Event.stop_and_complete_trackers
stop_and_complete_trackers(self) == [self EXCEPT !.trackers_started = FALSE]

\* Event.reload: nothing when the hash of the event's tree is the one
\* loaded; else the trackers are stopped, the event is loaded and the
\* trackers are started again if they were.
reload(self, tree) ==
    IF self.git_hash # Some(lookup(tree, self.name))
    THEN [Event_load(stop_and_complete_trackers(self), tree) EXCEPT
             !.trackers_started = self.trackers_started]
    ELSE self

\* Mutant of Removed: no registered event is ever removed.
Removed_None(events, names) == {}

\* events.keys() - names (line 64)
Removed(events, names) == DOMAIN events \ names

\* Mutant of SaveRoutes: a stored routes blob is left in place when the
\* event has no routes.
SaveRoutes_Keep(tree, self) ==
    IF self.routes # NoRoutes
    THEN Put(tree, RoutesPath(self.name), msgpack_dumps(self.routes))
    ELSE tree

\* The routes part of Event.save (lines 146-151).
SaveRoutes(tree, self) ==
    IF self.routes # NoRoutes
    THEN Put(tree, RoutesPath(self.name), msgpack_dumps(self.routes))
    ELSE IF RoutesPath(self.name) \in DOMAIN tree
    THEN Pop(tree, RoutesPath(self.name))
    ELSE tree

\* The tree Event.save commits.
save(tree, self) ==
    SaveRoutes(Put(tree, ConfigPath(self.name), yaml_dump(self.config)), self)

\* The tree at HEAD, empty before the first commit.
HeadTree == IF repo_tree = None THEN <<>> ELSE repo_tree[1]

\* A commit made outside the application that writes an event: data.yaml and,
\* or not, routes.
CommitEvent ==
    /\ \E name \in EventNames, text \in {"{}", "title: Test event\n"},
          blob \in {None, Some("91 81 a6 points 90")} :
         \E t \in {Put(HeadTree, ConfigPath(name), text)} :
           repo_tree' = Some(IF blob = None THEN Pop(t, RoutesPath(name))
                             ELSE Put(t, RoutesPath(name), blob[1]))
    /\ last_op' = [op |-> "other"]
    /\ UNCHANGED <<cfgVars, classVars, legacyVars, callVars, search, found, unpacked, rdp,
                   simplified, app_events, event>>

\* A commit made outside the application that removes an event.
CommitRemove ==
    /\ \E name \in tree_items(HeadTree) :
         repo_tree' = Some(Pop(Pop(HeadTree, ConfigPath(name)), RoutesPath(name)))
    /\ last_op' = [op |-> "other"]
    /\ UNCHANGED <<cfgVars, classVars, legacyVars, callVars, search, found, unpacked, rdp,
                   simplified, app_events, event>>

\* load_events: without a tree at the ref (KeyError, line 60) nothing is
\* done; else the events that left the tree are stopped and removed, the
\* registered ones reloaded and the new ones loaded.
LoadEvents ==
    /\ IF repo_tree = None
       THEN /\ last_op' = [op |-> "load", before |-> DOMAIN app_events, removed |-> {},
                           new |-> {}, reloaded |-> {}]
            /\ UNCHANGED app_events
       ELSE LET tree == repo_tree[1]
                names == tree_items(tree)
                gone == Removed(app_events, names)
            IN  /\ app_events' =
                     [name \in (DOMAIN app_events \ gone) \cup names |->
                         IF name \notin names THEN app_events[name]
                         ELSE IF name \in DOMAIN app_events
                         THEN reload(app_events[name], tree)
                         ELSE Event_load(Event(name, None, None), tree)]
                /\ last_op' = [op |-> "load", before |-> DOMAIN app_events,
                               removed |-> { stop_and_complete_trackers(app_events[name]) :
                                               name \in gone },
                               new |-> names \ DOMAIN app_events,
                               reloaded |-> names \cap DOMAIN app_events]
    /\ UNCHANGED <<cfgVars, classVars, legacyVars, callVars, search, found, unpacked, rdp,
                   simplified, repo_tree, event>>

\* Event.start_trackers of a registered event.
StartTrackers ==
    /\ \E name \in DOMAIN app_events :
         /\ ~app_events[name].trackers_started
         /\ app_events' = [app_events EXCEPT ![name].trackers_started = TRUE]
    /\ last_op' = [op |-> "other"]
    /\ UNCHANGED <<cfgVars, classVars, legacyVars, callVars, search, found, unpacked, rdp,
                   simplified, repo_tree, event>>

\* event = Event(app, name, config, routes)
Construct ==
    /\ \E name \in EventNames, config \in {EmptyConfig, [title |-> "Test event"]},
          rts \in {NoRoutes, <<[points |-> <<>>]>>} :
         event' = Some(Event(name, config, rts))
    /\ last_op' = [op |-> "other"]
    /\ UNCHANGED <<cfgVars, classVars, legacyVars, callVars, search, found, unpacked, rdp,
                   simplified, repo_tree, app_events>>

\* event = await Event.load(app, name, tree_reader)
EventLoad ==
    /\ \E name \in tree_items(HeadTree) :
         event' = Some(Event_load(Event(name, None, None), HeadTree))
    /\ last_op' = [op |-> "other"]
    /\ UNCHANGED <<cfgVars, classVars, legacyVars, callVars, search, found, unpacked, rdp,
                   simplified, repo_tree, app_events>>

\* event.routes.pop()
PopRoute ==
    /\ event # None
    /\ event[1].routes # NoRoutes
    /\ event' = Some([event[1] EXCEPT
                        !.routes = SubSeq(event[1].routes, 1, Len(event[1].routes) - 1)])
    /\ last_op' = [op |-> "other"]
    /\ UNCHANGED <<cfgVars, classVars, legacyVars, callVars, search, found, unpacked, rdp,
                   simplified, repo_tree, app_events>>

\* event.save(message): data.yaml is written, routes is written or removed,
\* the tree is committed and the hash of the event's tree is kept.
Save ==
    /\ event # None
    /\ \E t \in {save(HeadTree, event[1])} :
         /\ repo_tree' = Some(t)
         /\ event' = Some([event[1] EXCEPT !.git_hash = Some(lookup(t, event[1].name))])
    /\ last_op' = [op |-> "save",
                   had_routes |-> RoutesPath(event[1].name) \in DOMAIN HeadTree]
    /\ UNCHANGED <<cfgVars, classVars, legacyVars, callVars, search, found, unpacked, rdp,
                   simplified, app_events>>

InitEvents ==
    /\ routes = <<>>
    /\ analyse_start_time = None
    /\ ClassStart
    /\ feed = [mode |-> "few", left |-> 0, pos_left |-> 0, resets |-> 0,
               clock |-> 0, seq |-> 0]
    /\ FunctionStart
    /\ lfeed = [left |-> 0, seq |-> 0, time |-> 0]
    /\ NoSearch
    /\ NoRdp
    /\ NoEvents
    /\ NoCalls

NextEvents ==
    \/ CommitEvent
    \/ CommitRemove
    \/ LoadEvents
    \/ StartTrackers
    \/ Construct
    \/ EventLoad
    \/ PopRoute
    \/ Save

SpecEvents == InitEvents /\ [][NextEvents]_vars

\* ============================================================ properties
\* Analysed points emitted or buffered so far, and the off-route ones.
Analysed == points \o new_new_points
AllOff == off_route_points \o new_off_route_points
Ids(s) == [k \in 1 .. Len(s) |-> s[k].id]
Has(p, k) == k \in DOMAIN p

\* A step that analysed one raw point.
Stepped == feed'.seq = feed.seq + 1

\* The track break condition on the locals of the step just taken.
BrokeTrack(l) ==
    /\ l.matched
    /\ l.dist_from_last # None
    /\ l.time[1] > track_break_time
    /\ l.dist_from_last[1] > track_break_dist * Scale

\* C1: when a call of on_new_points is over, the analysed tracker's points
\* are exactly the points processed (since the last reset), each once and in
\* input order.
C1_DeliveredOnceInOrder ==
    pc = "idle" => Ids(points) = [k \in 1 .. feed.seq |-> k]

\* The raw points of a stream keep their input order.
InInputOrder(s) ==
    \A j, k \in 1 .. Len(s) :
        (j < k /\ Has(s[j], "id") /\ Has(s[k], "id")) => s[j].id < s[k].id

\* C2: batches are processed serially, so the raw points of successive
\* new_points calls appear in the analysed tracker's points in the order in
\* which they were given to the source tracker.
C2_BatchesInOrder == InInputOrder(at_points)

\* C3: along the analysed points since the last reset track_id never
\* decreases and dist never decreases, and neither exceeds the pipeline's
\* current track id and total distance.
C3_NonDecreasing ==
    /\ \A j, k \in 1 .. Len(Analysed) :
          j < k =>
            /\ (Has(Analysed[j], "track_id") /\ Has(Analysed[k], "track_id"))
                  => Analysed[j].track_id <= Analysed[k].track_id
            /\ (Has(Analysed[j], "dist") /\ Has(Analysed[k], "dist"))
                  => Analysed[j].dist <= Analysed[k].dist
    /\ \A k \in 1 .. Len(Analysed) :
            /\ Has(Analysed[k], "track_id") => Analysed[k].track_id <= current_track_id
            /\ Has(Analysed[k], "dist") => Analysed[k].dist <= Round(total_dist)

C3_Witness ==
    \E j, k \in 1 .. Len(points) :
        /\ j < k
        /\ Has(points[j], "dist") /\ Has(points[k], "dist")
        /\ points[j].dist < points[k].dist
        /\ points[j].track_id < points[k].track_id

\* C4: the source's timestamps do not go back (RawBatches), and then the
\* times along the analysed tracker's points, synthetic 'Inactive' points
\* included, do not go back either; stated for the runs that kept the raw
\* points in input order.
C4_TimesNonDecreasing ==
    InInputOrder(at_points) =>
        \A j, k \in 1 .. Len(at_points) :
            j < k => at_points[j].time <= at_points[k].time

\* C5: a matched point sets finished, finished_time = time and rider_status
\* = 'Finished' exactly when its match is on route 0 and within
\* FinishTolerance of the main route's total distance; no other analysed
\* point carries finished_time or rider_status.
C5_FinishDetection ==
    /\ (loc # None /\ loc.matched) =>
          LET p == prev_point_with_position
              at_finish == /\ loc.closest # None
                           /\ loc.closest.route_i = 0
                           /\ Abs(loc.closest.route_dist - routes[1].distance) < 100
          IN  /\ finished <=> at_finish
              /\ Has(p, "finished_time") <=> at_finish
              /\ Has(p, "rider_status") <=> at_finish
              /\ at_finish => (p.finished_time = p.time /\ p.rider_status = "Finished")
    /\ \A k \in 1 .. Len(Analysed) :
          LET p == Analysed[k]
          IN  (Has(p, "finished_time") \/ Has(p, "rider_status")) =>
                /\ Has(p, "position") /\ Has(p, "dist_route")
                /\ Loc(p.position).closest.route_i = 0
                /\ Abs(p.dist_route - routes[1].distance) < 100
                /\ p.finished_time = p.time
                /\ p.rider_status = "Finished"

C5_Witness ==
    /\ loc # None /\ loc.matched /\ finished
    /\ \E k \in 1 .. Len(points) : Has(points[k], "finished_time")

\* C6: a step on a positioned point whose time from the previous point
\* exceeds track_break_time and whose distance from it exceeds
\* track_break_dist increments current_track_id and off_route_track_id by one
\* and tags the point with the new track id; otherwise the track break step
\* changes neither (off_route_track_id changes only by the one of leaving an
\* off-route excursion).
C6_TrackBreak ==
    [][ Stepped =>
          LET brk == IF BrokeTrack(loc') THEN 1 ELSE 0
              left == IF is_off_route /\ ~is_off_route' THEN 1 ELSE 0
          IN  /\ current_track_id' = current_track_id + brk
              /\ off_route_track_id' = off_route_track_id + brk + left
              /\ loc'.matched => prev_point_with_position'.track_id = current_track_id'
      ]_vars

C6_Witness ==
    /\ loc # None /\ BrokeTrack(loc) /\ loc.prev_point # None
    /\ current_track_id = loc.prev_point.track_id + 1
    /\ prev_point_with_position.track_id = current_track_id

\* C7: whenever a track break is detected between the previous positioned
\* point and the current one, the analysed stream holds, before the current
\* point, a point with status 'Inactive' at prev.time + track_break_time.
C7_InactiveBeforeBreak ==
    (loc # None /\ loc.track_break /\ loc.prev_point # None /\ ~loc.raised) =>
        \E k, m \in 1 .. Len(Analysed) :
            /\ k < m
            /\ Analysed[m].id = loc.id
            /\ Get(Analysed[k], "status", "") = "Inactive"
            /\ Analysed[k].time = loc.prev_point.time + track_break_time

Entered == Stepped /\ loc'.matched /\ ~is_off_route /\ is_off_route'
Left == Stepped /\ loc'.matched /\ is_off_route /\ ~is_off_route'

OffPoint(p, id) == [position |-> p.position, track_id |-> id]

\* C9 as stated: on every step from on-route to off-route with a previous
\* positioned point, the off-route points receive the previous position and
\* then the current one, both with the current off_route_track_id.
C9_EnterEmitsPrev ==
    [][ (Entered /\ prev_point_with_position # None) =>
            loc'.appended = << OffPoint(prev_point_with_position, off_route_track_id'),
                               OffPoint(prev_point_with_position', off_route_track_id') >>
      ]_vars

\* C9 amended: the previous position is emitted when the previous point is
\* on the current track; when a track break is detected at the current point
\* only the current point is appended.
C9_EnterEmitsPrevOfSameTrack ==
    [][ (Entered /\ prev_point_with_position # None) =>
            loc'.appended =
                (IF prev_point_with_position.track_id = current_track_id'
                 THEN << OffPoint(prev_point_with_position, off_route_track_id') >>
                 ELSE << >>)
                \o << OffPoint(prev_point_with_position', off_route_track_id') >>
      ]_vars

C9_Witness ==
    /\ loc # None /\ loc.matched /\ loc.off_route /\ loc.prev_point # None
    /\ Len(loc.appended) = 2
    /\ loc.appended[1].position = loc.prev_point.position

\* C10: on every step from off-route to on-route the current
\* point is appended with the excursion's off_route_track_id, is_off_route
\* becomes false, and off_route_track_id is then incremented by one, so that
\* no off-route point carries the id of the next excursion.
C10_ExitClosesExcursion ==
    [][ Left =>
            /\ loc'.appended = << OffPoint(prev_point_with_position', off_route_track_id) >>
            /\ off_route_track_id' = off_route_track_id + 1
            /\ \A k \in 1 .. Len(AllOff') : AllOff'[k].track_id < off_route_track_id'
      ]_vars

\* C11: an off-route point is handed to the off-route tracker only after the
\* analysed point that triggered it has been handed to the analysed tracker:
\* in the step that hands the off-route buffer over, no analysed point is
\* still buffered and the last point of the analysed tracker is the last one
\* analysed, so every point analysed in the call is already there.
C11_AnalysedBeforeOffRoute ==
    [][Len(off_route_points') > Len(off_route_points) =>
            /\ new_new_points = <<>>
            /\ points # <<>>
            /\ points[Len(points)].id = loc.id
            /\ points' = points
            /\ off_route_points' = off_route_points \o new_off_route_points]_vars

\* Off-route points wait for their flush after an earlier flush of the run
\* delivered some.
C11_Witness ==
    /\ pc \in {"off_route", "off_route_end"}
    /\ new_off_route_points # <<>>
    /\ off_route_points # <<>>
    /\ points # <<>>

\* The attributes as __init__ and start leave them (start calls reset()).
Fresh == selfVars = <<None, None, 0, None, 0, None, None, FALSE, FALSE, 0, 0>>

\* C12: when on_reset_points has run, the attributes of the pipeline are those
\* of a pipeline that has just been started and both trackers hold no point,
\* so that what follows is analysed as by a new pipeline.
C12_ResetRestoresStart ==
    [][(reset_pc = "state" /\ reset_pc' = "idle") =>
            /\ Fresh'
            /\ points' = <<>>
            /\ off_route_points' = <<>>
            /\ pc' = "idle"]_vars

\* A reset has completed after points with a position were analysed.
C12_Witness ==
    /\ reset_pc = "idle"
    /\ feed.resets < MaxResets
    /\ feed.seq = 0
    /\ feed.pos_left < MaxLongPos
    /\ points = <<>>
    /\ Fresh

\* The first batch after a reset signal begins.
BeginsAfterReset ==
    /\ pc = "idle"
    /\ pc' = "loop"
    /\ feed.resets < MaxResets
    /\ feed.seq = 0

PrevSpeed == Get(prev_point_with_position, "speed_from_last", 0)

\* C17: get_predicted_position(time) returns None whenever there is no
\* previous point with a position, or the rider has finished, or
\* time - prev.time >= track_break_time, or the previous point has no
\* speed_from_last or one of at most 3 km/h.
C17_NoPrediction ==
    predicted # None =>
        (( \/ prev_point_with_position = None
           \/ finished
           \/ predicted.time - prev_point_with_position.time >= track_break_time
           \/ "speed_from_last" \notin DOMAIN prev_point_with_position
           \/ prev_point_with_position.speed_from_last <= MinSpeed )
         => predicted.result = None)

\* No prediction for a rider who moves fast enough and has not finished,
\* because track_break_time has passed since the previous point.
C17_Witness ==
    /\ predicted # None
    /\ predicted.result = None
    /\ prev_point_with_position # None
    /\ ~finished
    /\ PrevSpeed > MinSpeed
    /\ predicted.time - prev_point_with_position.time = track_break_time

\* C18: every point of the analysed stream, a point without a position
\* included, carries a track_id.
C18_EveryPointHasTrackId ==
    \A k \in 1 .. Len(Analysed) : Has(Analysed[k], "track_id")

\* The step analyses a point with a position.
SteppedPositioned ==
    /\ Stepped
    /\ prev_point_with_position' # None
    /\ prev_point_with_position'.id = feed'.seq

\* C19 as stated: a point with a position is matched unless analyse_start_time
\* is configured and later than the point, or the rider has finished.
C19_MatchedUnlessEarlyOrFinished ==
    [][SteppedPositioned =>
          (loc'.matched <=>
             ~( \/ ( /\ analyse_start_time # None
                     /\ prev_point_with_position'.time < analyse_start_time[1] )
                \/ finished ))]_vars

\* C19: a point with a position is matched exactly if the rider has not
\* finished, analyse_start_time is configured and it is not later than the
\* point; without analyse_start_time no point is matched.
C19_MatchedIfStartedAndNotFinished ==
    [][SteppedPositioned =>
          (loc'.matched <=>
             /\ ~finished
             /\ analyse_start_time # None
             /\ analyse_start_time[1] <= prev_point_with_position'.time)]_vars

\* A point with a position was not matched though the rider has not finished,
\* because analyse_start_time is not configured.
C19_Witness ==
    /\ analyse_start_time = None
    /\ ~finished
    /\ loc # None
    /\ ~loc.matched
    /\ prev_point_with_position # None
    /\ prev_point_with_position.id = loc.id

\* C20: a call of on_new_points that begins when the rider has finished ends
\* only after the last point of its batch: every point of the batch is
\* analysed and emitted.
C20_FinishedBatchEmitted ==
    [][(pc = "loop" /\ finished /\ pc' \in {"idle", "off_route_end"}) =>
            /\ i = len - 1
            /\ ~loc'.raised => Len(Analysed') = Len(Analysed) + 1]_vars

\* The synthetic point make_inactive builds for the point last.
InactivePoint(last) == [time |-> last.time + legacy_track_break_time, status |-> "Inactive"]

\* make_inactive task f passes its test of line 206 in this step.
Fires(f) ==
    /\ f \in 1 .. Len(timers)
    /\ timers[f].pc \in {"new", "sleep"}
    /\ timers'[f].pc = "shield"

\* The shielded delivery d runs in this step.
Delivers(d) ==
    /\ d \in 1 .. Len(delivers)
    /\ ~delivers[d].done
    /\ delivers'[d].done

C15_NoInactiveAfterStop ==
    [][stop_pc = "done" =>
          /\ \A f \in 1 .. Len(timers) : ~Fires(f)
          /\ \A d \in 1 .. Len(delivers) : ~Delivers(d)]_vars

\* The points of s that carry a status.
WithStatus(s) == SelectSeq(s, LAMBDA p : Has(p, "status"))

C21_OnlyFailingPointDropped ==
    [][(Stepped /\ loc'.raised) =>
            /\ selfVars' = selfVars
            /\ Analysed' = Analysed
            /\ AllOff' = AllOff
            /\ (i < len - 1 => pc' = "loop")]_vars

\* C26: the point that sets finished is emitted, and the call ends with it:
\* no later point of the batch is analysed or emitted.
C26_FinishingPointEndsBatch ==
    [][(Stepped /\ ~finished /\ finished') =>
            /\ pc' \in {"idle", "off_route_end"}
            /\ new_new_points' = <<>>
            /\ points' # <<>>
            /\ points'[Len(points')].id = feed'.seq
            /\ Has(points'[Len(points')], "finished_time")]_vars

\* C27: when the guard of get_predicted_position passes, the result follows
\* the route, with dist_route = round(prev.dist_route + the distance moved),
\* exactly when the previous match exists within 500 m and going_forward is
\* true; otherwise it is a position alone exactly when prev_unit_vector is
\* known; otherwise it is None.
C27_PredictionBranches ==
    (predicted # None /\ CanPredict(predicted.time)) =>
        LET pp == prev_point_with_position
            onRoute == /\ prev_closest # None
                       /\ prev_closest.dist < FollowDist * Scale
                       /\ going_forward = Some(TRUE)
            res == predicted.result
        IN  /\ onRoute <=> (res # None /\ Has(res[1], "dist_route"))
            /\ onRoute =>
                  /\ DOMAIN res[1] = {"position", "dist_route"}
                  /\ res[1].dist_route = pp.dist_route +
                        RoundDiv(PrevSpeed * 100 * (predicted.time - pp.time) * 60, 3600)
            /\ (~onRoute /\ prev_unit_vector # None) <=>
                  (res # None /\ DOMAIN res[1] = {"position"})
            /\ (~onRoute /\ prev_unit_vector = None) <=> res = None

\* A route-following prediction some minutes ahead, and the rider has moved.
C27_Witness ==
    /\ predicted # None
    /\ predicted.result # None
    /\ Has(predicted.result[1], "dist_route")
    /\ predicted.time > prev_point_with_position.time
    /\ predicted.result[1].dist_route > prev_point_with_position.dist_route

\* Both matches exist, within 250 m of the same route.
BothSnapped(closest, prev) ==
    /\ closest # None
    /\ prev # None
    /\ closest.dist < SnapDist * Scale
    /\ prev.dist < SnapDist * Scale
    /\ closest.route_i = prev.route_i

C23_RdpContract ==
    simplified # None =>
        LET inp == rdp[1].points
            out == simplified[1]
        IN  /\ Len(out) >= 2
            /\ out[1] = inp[1]
            /\ out[Len(out)] = inp[Len(inp)]
            /\ \A k \in DOMAIN out : inp[out[k].index + 1] = out[k]
            /\ \A k \in 1 .. Len(out) - 1 :
                 /\ out[k].index < out[k + 1].index
                 /\ \A j \in out[k].index + 1 .. out[k + 1].index - 1 :
                      ~Over(find_c_point(inp[j + 1], out[k], out[k + 1]).dist,
                            rdp[1].epsilon)

\* A polyline simplified by two nested splits, with a dropped point left
\* between two kept ones.
C23_Witness ==
    /\ simplified # None
    /\ Len(rdp[1].points) = MaxPolyline
    /\ Len(simplified[1]) = MaxPolyline - 1
    /\ simplified[1][2].index = 2
    /\ rdp[1].epsilon > 0

Preferred ==
    LET prev == search[1].prev_closest_route_i
    IN  IF prev # None /\ prev[1] # 0 THEN <<prev[1], 0>> ELSE <<0>>
InRoute(route_i) ==
    [route_i |-> route_i, route |-> search[1].routes[route_i + 1]]
        @@ find_closest_point_pair_route(search[1].routes[route_i + 1],
               search[1].to_point, search[1].min_search_complex_dist)

\* C28: the search returns none exactly when there are no routes; otherwise
\* it returns the result of the first preferred route (the previous one if
\* given and not 0, then the main one) at less than break_out_dist, having
\* searched no route after it, and without such a route a result of least
\* distance among those of all routes; no route is searched twice.
C28_RoutesSearch ==
    found # None =>
        LET ret == found[1].ret
            ids == [n \in DOMAIN found[1].searched |-> found[1].searched[n].route_i]
            all == 0 .. Len(search[1].routes) - 1
            out == { k \in DOMAIN Preferred :
                       Under(InRoute(Preferred[k]).dist, search[1].break_out_dist) }
        IN  /\ ret = None <=> search[1].routes = <<>>
            /\ \A m \in DOMAIN ids : \A n \in DOMAIN ids : m # n => ids[m] # ids[n]
            /\ search[1].routes # <<>> =>
                 IF out # {}
                 THEN \E k \in out :
                        /\ \A j \in out : k <= j
                        /\ ret[1] = InRoute(Preferred[k])
                        /\ ids = SubSeq(Preferred, 1, k)
                 ELSE /\ ret[1] = InRoute(ret[1].route_i)
                      /\ \A r \in all : ~Less(InRoute(r).dist, ret[1].dist)
                      /\ { ids[n] : n \in DOMAIN ids } = all
                      /\ SubSeq(ids, 1, Len(Preferred)) = Preferred

\* The previous route broke out although another route is nearer.
C28_Witness ==
    /\ found # None
    /\ found[1].ret # None
    /\ Len(Preferred) = 2
    /\ found[1].ret[1].route_i = Preferred[1]
    /\ Len(found[1].searched) = 1
    /\ \E r \in 0 .. Len(search[1].routes) - 1 :
         Less(InRoute(r).dist, found[1].ret[1].dist)

\* C22: a result read back from its packed form equals the result in route
\* index, route, both points of the segment, distance and closest point.
C22_PackRoundTrip ==
    unpacked # None =>
        LET m == found[1].ret[1]
            u == unpacked[1]
        IN  /\ u.route_i = m.route_i
            /\ u.route = m.route
            /\ u.point_pair[1] = m.point_pair[1]
            /\ u.point_pair[2] = m.point_pair[2]
            /\ u.dist = m.dist
            /\ u.point.lat = m.point.lat
            /\ u.point.lng = m.point.lng

\* C24: when load_events has completed, the names registered in
\* app['trackers.events'] are the names under 'events' in the tree: the
\* events that left the tree were stopped and removed, those new in the tree
\* were loaded, and those in both were reloaded and hold what the tree holds.
C24_RegistryMatchesTree ==
    last_op.op = "load" =>
        LET names == tree_items(HeadTree)
        IN  /\ DOMAIN app_events = names
            /\ { e.name : e \in last_op.removed } = last_op.before \ names
            /\ \A e \in last_op.removed : ~e.trackers_started
            /\ last_op.new = names \ last_op.before
            /\ last_op.reloaded = names \cap last_op.before
            /\ \A name \in names :
                 /\ app_events[name].name = name
                 /\ app_events[name].git_hash = Some(lookup(HeadTree, name))

\* One load removed an event that had left the tree and loaded a new one.
C24_Witness ==
    /\ last_op.op = "load"
    /\ \E e \in last_op.removed : e.name \notin DOMAIN app_events
    /\ last_op.new # {}

\* C25: after Event.save the routes blob is in the tree exactly when the
\* event has routes, and loading the event from the tree gives the config and
\* the routes that were saved, the empty list without a blob.
C25_SaveLoadRoundTrip ==
    last_op.op = "save" =>
        LET self == event[1]
            loaded == Event_load(Event(self.name, None, None), HeadTree)
        IN  /\ RoutesPath(self.name) \in DOMAIN HeadTree <=> self.routes # NoRoutes
            /\ loaded.config = self.config
            /\ loaded.routes = self.routes
            /\ RoutesPath(self.name) \notin DOMAIN HeadTree => loaded.routes = NoRoutes
            /\ loaded.git_hash = self.git_hash

\* An event loaded with routes was saved after its routes became empty.
C25_Witness ==
    /\ last_op.op = "save"
    /\ last_op.had_routes
    /\ event[1].routes = NoRoutes
    /\ RoutesPath(event[1].name) \notin DOMAIN HeadTree

\* C31: every matched point with a position for which time has passed since
\* the previous one and a distance from it is known, a distance of 0 included,
\* carries speed_from_last = dist_from_last / seconds * 3.6.
C31_SpeedWheneverTimePasses ==
    [][(SteppedPositioned /\ loc'.matched /\ loc'.time[1] > 0
            /\ loc'.dist_from_last # None) =>
          /\ Has(prev_point_with_position', "speed_from_last")
          /\ prev_point_with_position'.speed_from_last =
                 SpeedFromLast(loc'.dist_from_last[1], loc'.time[1])]_vars

\* ---------------------------------------------------------------------------
\* route_elevation (analyse.py): the elevation of a route at a distance along it
\* ---------------------------------------------------------------------------

MaxSamples == 3
MaxSampleDist == 3
MaxElevation == 2
MaxRouteDist == 5

\* route['elevation']: samples (lat, lng, elevation, distance along the route)
\* in the order of the route, the distances increasing.
ElevationTables ==
    UNION {{t \in [1..n -> {<<0, 0, e, d>> : e \in 0..MaxElevation, d \in 0..MaxSampleDist}] :
               \A k \in 1..(n - 1) : t[k][4] < t[k + 1][4]} : n \in 2..MaxSamples}

\* The main route, and an alternative that starts one unit along the main route
\* and is twice as long as the part of the main route it replaces.
ElevationRoutes ==
    {[main |-> TRUE, elevation |-> t] : t \in ElevationTables}
        \cup {[main |-> FALSE, elevation |-> t, start_distance |-> 1, dist_factor |-> 2] :
                 t \in ElevationTables}

\* bisect.bisect(KeyifyList(elevation, itemgetter(3)), a / f): the number of
\* samples whose distance is at most a / f.
bisect(elevation, a, f) ==
    Cardinality({k \in 1..Len(elevation) : f * elevation[k][4] <= a})

\* The exact value returned, as a fraction n / d with d > 0.  dist_on_route is
\* a / f; elevation[point2_i - 1] with point2_i = 0 is Python's elevation[-1],
\* the last sample.
route_elevation(route, route_dist) ==
    LET elevation == route.elevation
        a == IF route.main THEN route_dist ELSE route_dist - route.start_distance
        f == IF route.main THEN 1 ELSE route.dist_factor
        found_i == bisect(elevation, a, f)
        point2_i == IF found_i = Len(elevation) THEN found_i - 1 ELSE found_i
        point2 == elevation[point2_i + 1]
        point1 == IF point2_i = 0 THEN elevation[Len(elevation)] ELSE elevation[point2_i]
        den == f * (point2[4] - point1[4])
        num == (point2[3] - point1[3]) * (a - f * point2[4]) + point2[3] * den
    IN  IF den > 0 THEN [n |-> num, d |-> den] ELSE [n |-> 0 - num, d |-> 0 - den]

InitElevation ==
    /\ routes = <<>>
    /\ analyse_start_time = None
    /\ ClassStart
    /\ feed = [mode |-> "few", left |-> 0, pos_left |-> 0, resets |-> 0,
               clock |-> 0, seq |-> 0]
    /\ FunctionStart
    /\ lfeed = [left |-> 0, seq |-> 0, time |-> 0]
    /\ NoSearch
    /\ NoRdp
    /\ NoEvents
    /\ sections_call = None
    /\ startup = None
    /\ event_trackers = None
    /\ elevation_call \in {[route |-> r, route_dist |-> d, result |-> None] :
                              r \in ElevationRoutes, d \in 0..MaxRouteDist}

RouteElevation ==
    /\ elevation_call # None
    /\ elevation_call.result = None
    /\ elevation_call' = [elevation_call EXCEPT
                             !.result = Some(route_elevation(elevation_call.route,
                                                             elevation_call.route_dist))]
    /\ UNCHANGED <<cfgVars, classVars, legacyVars, search, found, unpacked, rdp,
                   simplified, eventVars, sections_call, startup, event_trackers>>

SpecElevation == InitElevation /\ [][RouteElevation]_vars

\* C32: route_elevation returns a value between the elevations of the two
\* samples that bracket the distance along the route, the first sample's
\* elevation for a distance below the first sample and the last sample's
\* elevation for a distance above the last sample.
C32_ElevationBetweenOrClamped ==
    (elevation_call # None /\ elevation_call.result # None) =>
        LET route == elevation_call.route
            el == route.elevation
            a == IF route.main THEN elevation_call.route_dist
                 ELSE elevation_call.route_dist - route.start_distance
            f == IF route.main THEN 1 ELSE route.dist_factor
            r == elevation_call.result[1]
        IN  IF a < f * el[1][4] THEN r.n = el[1][3] * r.d
            ELSE IF a > f * el[Len(el)][4] THEN r.n = el[Len(el)][3] * r.d
            ELSE \E k \in 1..(Len(el) - 1) :
                    /\ f * el[k][4] <= a
                    /\ a <= f * el[k + 1][4]
                    /\ \/ el[k][3] * r.d <= r.n /\ r.n <= el[k + 1][3] * r.d
                       \/ el[k + 1][3] * r.d <= r.n /\ r.n <= el[k][3] * r.d

\* ---------------------------------------------------------------------------
\* ramer_douglas_peucker_sections (analyse.py): simplification with anchors
\* ---------------------------------------------------------------------------

MaxSectionPoints == 4
MaxSplitDist == 4
MaxSplits == 2

\* Route points as route_with_distance_and_index leaves them: the index and
\* the distance along the route, which grows by the length of each leg.  The
\* legs run along the axes of the grid, one or two steps east or one step north.
RECURSIVE Walk(_)
Walk(legs) ==
    IF legs = <<>> THEN <<[lat |-> 0, lng |-> 0, index |-> 0, distance |-> 0]>>
    ELSE LET before == Walk(SubSeq(legs, 1, Len(legs) - 1))
             last == before[Len(before)]
             leg == legs[Len(legs)]
         IN  Append(before, [lat |-> last.lat + leg[1], lng |-> last.lng + leg[2],
                             index |-> last.index + 1,
                             distance |-> last.distance + leg[1] + leg[2]])

SectionRoutes ==
    {Walk(legs) : legs \in UNION {[1..m -> {<<0, 1>>, <<0, 2>>, <<1, 0>>}] :
                                     m \in 1..(MaxSectionPoints - 1)}}

\* min(simplified_close_points, key=lambda point: abs(dist - point.distance)):
\* the first of the points nearest to dist.
ClosestTo(pts, dist) ==
    pts[CHOOSE k \in 1..Len(pts) :
            /\ \A j \in 1..Len(pts) : Abs(dist - pts[k].distance) <= Abs(dist - pts[j].distance)
            /\ \A j \in 1..(k - 1) : Abs(dist - pts[j].distance) > Abs(dist - pts[k].distance)]

\* The for loop over split_at_dist, from the split numbered s on.  An empty
\* window or an empty section makes ramer_douglas_peucker read points[0] of an
\* empty list: IndexError.
RECURSIVE SectionsLoop(_, _, _, _, _, _, _)
SectionsLoop(pts, epsilon, split_at_dist, split_point_range, s, last_index, sections) ==
    IF s > Len(split_at_dist)
    THEN [raised |-> FALSE,
          points |-> sections \o ramer_douglas_peucker(Slice(pts, last_index, Len(pts)), epsilon)]
    ELSE LET dist == split_at_dist[s]
             min_dist == dist - split_point_range
             max_dist == dist + split_point_range
             close_points == SelectSeq(pts, LAMBDA point :
                                 min_dist <= point.distance /\ point.distance < max_dist)
         IN  IF close_points = <<>> THEN [raised |-> TRUE, points |-> <<>>]
             ELSE LET simplified_close_points == ramer_douglas_peucker(close_points, epsilon)
                      closest_index == ClosestTo(simplified_close_points, dist).index
                      section == Slice(pts, last_index, closest_index + 1)
                  IN  IF section = <<>> THEN [raised |-> TRUE, points |-> <<>>]
                      ELSE LET simplified_points_section == ramer_douglas_peucker(section, epsilon)
                           IN  SectionsLoop(pts, epsilon, split_at_dist, split_point_range,
                                            s + 1, closest_index,
                                            sections \o SubSeq(simplified_points_section, 1,
                                                    Len(simplified_points_section) - 1))

ramer_douglas_peucker_sections(pts, epsilon, split_at_dist, split_point_range) ==
    SectionsLoop(pts, epsilon, split_at_dist, split_point_range, 1, 0, <<>>)

InitSections ==
    /\ routes = <<>>
    /\ analyse_start_time = None
    /\ ClassStart
    /\ feed = [mode |-> "few", left |-> 0, pos_left |-> 0, resets |-> 0,
               clock |-> 0, seq |-> 0]
    /\ FunctionStart
    /\ lfeed = [left |-> 0, seq |-> 0, time |-> 0]
    /\ NoSearch
    /\ NoRdp
    /\ NoEvents
    /\ elevation_call = None
    /\ startup = None
    /\ event_trackers = None
    /\ sections_call \in {[points |-> l, epsilon |-> e, split_at_dist |-> sp,
                           split_point_range |-> r, result |-> None] :
                             l \in SectionRoutes, e \in 0..1,
                             sp \in UNION {[1..m -> 0..MaxSplitDist] : m \in 1..MaxSplits},
                             r \in 1..2}

SimplifySections ==
    /\ sections_call # None
    /\ sections_call.result = None
    /\ \E r \in {ramer_douglas_peucker_sections(sections_call.points, sections_call.epsilon,
                     sections_call.split_at_dist, sections_call.split_point_range)} :
         sections_call' = [sections_call EXCEPT !.result = Some(r)]
    /\ UNCHANGED <<cfgVars, classVars, legacyVars, search, found, unpacked, rdp,
                   simplified, eventVars, elevation_call, startup, event_trackers>>

SpecSections == InitSections /\ [][SimplifySections]_vars

\* C33: for any list of split distances ramer_douglas_peucker_sections returns
\* route points with strictly increasing indices, the first route point first
\* and the last route point last.
C33_SectionsStrictlyIncreasing ==
    (sections_call # None /\ sections_call.result # None) =>
        LET r == sections_call.result[1]
            pts == sections_call.points
        IN  /\ ~r.raised
            /\ r.points[1] = pts[1]
            /\ r.points[Len(r.points)] = pts[Len(pts)]
            /\ \A k \in 1..(Len(r.points) - 1) : r.points[k].index < r.points[k + 1].index

\* C34: in every reachable state of the pipeline off_route_track_id is at
\* least current_track_id.
C34_OffRouteTrackIdAhead == off_route_track_id >= current_track_id

\* A track break and the end of an off-route excursion have both happened.
C34_Witness == current_track_id > 0 /\ off_route_track_id > current_track_id

\* C36: finished goes from true to false only in the reset of the state, and
\* at most one of the emitted points carries finished_time.
C36_FinishedOnceBetweenResets ==
    [][/\ (finished /\ ~finished') => (reset_pc = "state" /\ reset_pc' = "idle")
       /\ Cardinality({k \in DOMAIN points' : Has(points'[k], "finished_time")}) <= 1
       /\ \A k \in DOMAIN points' :
            Has(points'[k], "finished_time") <=> Get(points'[k], "rider_status", "") = "Finished"]_vars

\* The rider has finished and points were emitted after the finishing point.
C36_Witness ==
    /\ finished
    /\ \E k \in DOMAIN points : Has(points[k], "finished_time") /\ k < Len(points)

\* C37: whenever prev_closest is set, prev_point_with_position exists and
\* carries the dist_route of that same match, so the follow-route branch of
\* get_predicted_position finds the dist_route it reads.
C37_PrevClosestHasDistRoute ==
    /\ prev_closest # None =>
          /\ prev_point_with_position # None
          /\ Has(prev_point_with_position, "dist_route")
          /\ prev_point_with_position.dist_route = prev_closest.route_dist
    /\ (predicted # None /\ predicted.result # None
            /\ Has(predicted.result[1], "dist_route")) =>
          Has(prev_point_with_position, "dist_route")

\* A prediction along the route was made from a matched previous point.
C37_Witness ==
    /\ prev_closest # None
    /\ predicted # None
    /\ predicted.result # None
    /\ Has(predicted.result[1], "dist_route")

\* C35: the output does not depend on where the raw points are cut into
\* batches.  The analysis of a point depends on the state and the point only,
\* so this holds exactly when every call does for its batch what calls with
\* one point each would do: it ends after the last point of the batch, without
\* raising, and has emitted each of the len points of the batch, in order.
C35_BatchingInvisible ==
    [][(pc = "loop" /\ pc' \in {"idle", "off_route_end"}) =>
            /\ i = len - 1
            /\ ~loc'.raised
            /\ Len(points') >= len
            /\ \A k \in 1..len :
                 points'[Len(points') - len + k].id = feed'.seq - len + k]_vars

\* C38: at any time at most one make_inactive task of the pipeline is
\* pending, that is, neither completed nor cancelled.
C38_OnePendingTimer ==
    Cardinality({t \in 1..Len(timers) : timers[t].pc \notin {"done", "cancelled"}}) <= 1

\* ---------------------------------------------------------------------------
\* AnalyseTracker.start (analyse.py): the points the source holds are analysed
\* by a first call of on_new_points, then the observables are subscribed to
\* ---------------------------------------------------------------------------

MaxHeld == 3
MaxStartPoints == 5

\* The list the first call of on_new_points iterates over.  It is
\* org_tracker.points itself: what the loop sees of points the source appends
\* meanwhile depends on whether the source's Tracker.new_points extends its
\* list in place (as Tracker of __init__.py does) or replaces it.
Iterated(st) == IF st.in_place THEN st.points ELSE SubSeq(st.points, 1, st.len)

\* A raw point of the source; finish says whether its match is at the finish.
InitStart ==
    /\ routes = <<>>
    /\ analyse_start_time = None
    /\ ClassStart
    /\ feed = [mode |-> "few", left |-> 0, pos_left |-> 0, resets |-> 0,
               clock |-> 0, seq |-> 0]
    /\ FunctionStart
    /\ lfeed = [left |-> 0, seq |-> 0, time |-> 0]
    /\ NoSearch
    /\ NoRdp
    /\ NoEvents
    /\ elevation_call = None
    /\ sections_call = None
    /\ event_trackers = None
    /\ startup \in {[pc |-> "new", points |-> [k \in 1..m |-> [id |-> k, finish |-> f[k]]],
                     in_place |-> b, len |-> 0, i |-> 0, analysed |-> <<>>,
                     finished |-> FALSE, did_slow_log |-> FALSE, subscribed |-> FALSE] :
                       m \in 0..MaxHeld, f \in [1..MaxHeld -> BOOLEAN], b \in BOOLEAN}

\* Lines 69-92: start calls on_new_points(org_tracker, org_tracker.points);
\* lines 126-133 of the call.
Start ==
    /\ startup # None
    /\ startup.pc = "new"
    /\ startup' = [startup EXCEPT !.len = Len(startup.points),
                                  !.pc = IF startup.points = <<>> THEN "flush" ELSE "loop"]
    /\ UNCHANGED <<cfgVars, classVars, legacyVars, search, found, unpacked, rdp,
                   simplified, eventVars, elevation_call, sections_call, event_trackers>>

\* Lines 135-255 for the point at index i: the point is analysed, a finishing
\* point sets finished; at every tenth point and at the last one a slow call
\* logs (dividing by len - 1) and sleeps; else the loop goes on, or ends after
\* the last point seen or when finished is set.
StartLoopBody ==
    /\ startup # None
    /\ startup.pc = "loop"
    /\ \E slow \in BOOLEAN :
         LET point == Iterated(startup)[startup.i + 1]
             fin == startup.finished \/ point.finish
             is_last_point == startup.i = startup.len - 1
             log == /\ (startup.i % FlushEvery = FlushEvery - 1 \/ is_last_point)
                    /\ (slow \/ (is_last_point /\ startup.did_slow_log))
             raises == log /\ startup.len - 1 = 0
             exits == fin \/ startup.i + 1 >= Len(Iterated(startup))
         IN  startup' = [startup EXCEPT
                 !.analysed = Append(@, point.id),
                 !.finished = fin,
                 !.did_slow_log = @ \/ (log /\ ~raises),
                 !.pc = IF raises THEN "raised" ELSE IF log THEN "sleep"
                        ELSE IF exits THEN "flush" ELSE "loop",
                 !.i = IF log \/ exits THEN @ ELSE @ + 1]
    /\ UNCHANGED <<cfgVars, classVars, legacyVars, search, found, unpacked, rdp,
                   simplified, eventVars, elevation_call, sections_call, event_trackers>>

\* Lines 244-255: the call goes on after await asyncio.sleep(0).
StartResume ==
    /\ startup # None
    /\ startup.pc = "sleep"
    /\ startup' = [startup EXCEPT
           !.pc = IF startup.finished \/ startup.i + 1 >= Len(Iterated(startup))
                  THEN "flush" ELSE "loop",
           !.i = IF startup.finished \/ startup.i + 1 >= Len(Iterated(startup))
                 THEN @ ELSE @ + 1]
    /\ UNCHANGED <<cfgVars, classVars, legacyVars, search, found, unpacked, rdp,
                   simplified, eventVars, elevation_call, sections_call, event_trackers>>

\* Lines 257-260 and 93-96: the buffers are flushed, the call returns and
\* start subscribes on_new_points to the source's observable.
Subscribe ==
    /\ startup # None
    /\ startup.pc = "flush"
    /\ startup' = [startup EXCEPT !.subscribed = TRUE, !.pc = "done"]
    /\ UNCHANGED <<cfgVars, classVars, legacyVars, search, found, unpacked, rdp,
                   simplified, eventVars, elevation_call, sections_call, event_trackers>>

\* The source gets a point while start sleeps, or after start: it is added
\* to the source's points and handed to the subscribers of its observable,
\* whose on_new_points analyses it.
SourceNewPoints ==
    /\ startup # None
    /\ startup.pc \in {"sleep", "done"}
    /\ Len(startup.points) < MaxStartPoints
    /\ \E finish \in BOOLEAN :
         LET point == [id |-> Len(startup.points) + 1, finish |-> finish]
         IN  startup' = [startup EXCEPT
                 !.points = Append(@, point),
                 !.analysed = IF startup.subscribed THEN Append(@, point.id) ELSE @,
                 !.finished = IF startup.subscribed THEN @ \/ finish ELSE @]
    /\ UNCHANGED <<cfgVars, classVars, legacyVars, search, found, unpacked, rdp,
                   simplified, eventVars, elevation_call, sections_call, event_trackers>>

NextStart ==
    \/ Start
    \/ StartLoopBody
    \/ StartResume
    \/ Subscribe
    \/ SourceNewPoints

SpecStart == InitStart /\ [][NextStart]_vars

\* C39: when start has returned, every point the source held when start
\* began, and every point it got before on_new_points was subscribed, has been
\* analysed exactly once.
C39_NoPointMissedAtStart ==
    (startup # None /\ startup.pc = "done") =>
        \A p \in 1..Len(startup.points) :
            Cardinality({k \in 1..Len(startup.analysed) : startup.analysed[k] = p}) = 1

\* ---------------------------------------------------------------------------
\* Event.start_trackers and Event.stop_and_complete_trackers (events.py)
\* ---------------------------------------------------------------------------

MaxRiders == 2
MaxTrackerCalls == 4

\* An event with its riders, no tracker started, and no call in progress.
\* task is the task of _start_trackers that starting_fut names: the riders it
\* has registered so far.  stopped says that stop_and_complete_trackers has
\* returned and start_trackers was not called since.
InitTrackers ==
    /\ routes = <<>>
    /\ analyse_start_time = None
    /\ ClassStart
    /\ feed = [mode |-> "few", left |-> 0, pos_left |-> 0, resets |-> 0,
               clock |-> 0, seq |-> 0]
    /\ FunctionStart
    /\ lfeed = [left |-> 0, seq |-> 0, time |-> 0]
    /\ NoSearch
    /\ NoRdp
    /\ NoEvents
    /\ elevation_call = None
    /\ sections_call = None
    /\ startup = None
    /\ event_trackers \in {[riders |-> n, rider_trackers |-> {}, trackers_started |-> FALSE,
                            starting_fut |-> None, task |-> [pc |-> "none", k |-> 0],
                            start_pc |-> "idle", stop_pc |-> "idle", seen |-> {},
                            left |-> 0, stopped |-> FALSE, calls |-> 0] :
                              n \in 0..MaxRiders}

\* cancel_and_wait_task(self.starting_fut) at line 204: cancel_and_wait_task
\* is a coroutine function and the call is not awaited, so its body, and
\* task.cancel() in it, never runs: the task is as it was.
cancel_and_wait_task(task) == task

\* Lines 155-159: start_trackers creates the task of _start_trackers, unless
\* the trackers are started, and awaits it.
StartTrackersCall ==
    /\ event_trackers # None
    /\ event_trackers.start_pc = "idle"
    /\ event_trackers.calls < MaxTrackerCalls
    /\ event_trackers' =
          IF event_trackers.trackers_started
          THEN [event_trackers EXCEPT !.stopped = FALSE, !.calls = @ + 1]
          ELSE [event_trackers EXCEPT !.stopped = FALSE, !.calls = @ + 1,
                                      !.starting_fut = Some(1),
                                      !.task = [pc |-> "run", k |-> 0],
                                      !.start_pc = "await"]
    /\ UNCHANGED <<cfgVars, classVars, legacyVars, search, found, unpacked, rdp,
                   simplified, eventVars, elevation_call, sections_call, startup>>

\* Lines 163-200: the task goes on to the end of the awaits of the next rider
\* and registers its tracker (lines 196-199); after the last rider, and at
\* once without riders, it sets trackers_started.
StartRider ==
    /\ event_trackers # None
    /\ event_trackers.task.pc = "run"
    /\ LET k == event_trackers.task.k
           n == event_trackers.riders
       IN  event_trackers' = [event_trackers EXCEPT
               !.rider_trackers = IF k < n THEN @ \cup {k + 1} ELSE @,
               !.task = IF k + 1 >= n THEN [pc |-> "done", k |-> n]
                        ELSE [pc |-> "run", k |-> k + 1],
               !.trackers_started = IF k + 1 >= n THEN TRUE ELSE @]
    /\ UNCHANGED <<cfgVars, classVars, legacyVars, search, found, unpacked, rdp,
                   simplified, eventVars, elevation_call, sections_call, startup>>

\* Lines 158-161: the awaited task is over; starting_fut is set to None.
StartTrackersEnd ==
    /\ event_trackers # None
    /\ event_trackers.start_pc = "await"
    /\ event_trackers.task.pc \in {"done", "cancelled"}
    /\ event_trackers' = [event_trackers EXCEPT !.starting_fut = None, !.start_pc = "idle"]
    /\ UNCHANGED <<cfgVars, classVars, legacyVars, search, found, unpacked, rdp,
                   simplified, eventVars, elevation_call, sections_call, startup>>

\* Lines 202-209: stop_and_complete_trackers calls cancel_and_wait_task if
\* there is a starting_fut, stops every tracker and awaits complete() of the
\* first; without trackers it goes straight to lines 213-215 and returns.
StopCall ==
    /\ event_trackers # None
    /\ event_trackers.stop_pc = "idle"
    /\ event_trackers.calls < MaxTrackerCalls
    /\ LET task == IF event_trackers.starting_fut # None
                   THEN cancel_and_wait_task(event_trackers.task)
                   ELSE event_trackers.task
       IN  event_trackers' =
             IF event_trackers.rider_trackers = {}
             THEN [event_trackers EXCEPT !.task = task, !.calls = @ + 1,
                                         !.trackers_started = FALSE, !.stopped = TRUE]
             ELSE [event_trackers EXCEPT !.task = task, !.calls = @ + 1,
                                         !.stop_pc = "complete",
                                         !.seen = event_trackers.rider_trackers,
                                         !.left = Cardinality(event_trackers.rider_trackers)]
    /\ UNCHANGED <<cfgVars, classVars, legacyVars, search, found, unpacked, rdp,
                   simplified, eventVars, elevation_call, sections_call, startup>>

\* Lines 208-215: an await of complete() is over.  The loop over
\* rider_trackers.values() raises RuntimeError if a tracker was registered
\* meanwhile; after the last tracker the registry is emptied, trackers_started
\* is set to False and the call returns.
StopComplete ==
    /\ event_trackers # None
    /\ event_trackers.stop_pc = "complete"
    /\ event_trackers' =
          IF event_trackers.rider_trackers # event_trackers.seen
          THEN [event_trackers EXCEPT !.stop_pc = "idle", !.left = 0, !.seen = {}]
          ELSE IF event_trackers.left > 1
          THEN [event_trackers EXCEPT !.left = @ - 1]
          ELSE [event_trackers EXCEPT !.stop_pc = "idle", !.left = 0, !.seen = {},
                                      !.rider_trackers = {},
                                      !.trackers_started = FALSE, !.stopped = TRUE]
    /\ UNCHANGED <<cfgVars, classVars, legacyVars, search, found, unpacked, rdp,
                   simplified, eventVars, elevation_call, sections_call, startup>>

NextTrackers ==
    \/ StartTrackersCall
    \/ StartRider
    \/ StartTrackersEnd
    \/ StopCall
    \/ StopComplete

SpecTrackers == InitTrackers /\ [][NextTrackers]_vars

\* C40: after stop_and_complete_trackers has returned, and until
\* start_trackers is called again, rider_trackers is empty and
\* trackers_started is false.
C40_StoppedStaysStopped ==
    (event_trackers # None /\ event_trackers.stopped) =>
        /\ event_trackers.rider_trackers = {}
        /\ ~event_trackers.trackers_started

====
